---- MODULE Spec2Model ----
(***************************************************************************)
(* G.723.1 decoder (libavcodec/g723_1.c): the decoder context, the frame    *)
(* driver g723_1_decode_frame and the routines it calls, as a state         *)
(* machine.  One action is one decode call.                                  *)
(*                                                                           *)
(* Arrays are functions over 0..n-1, as in C.  Integers are mathematical;    *)
(* where the C code stores into int16_t the value is reduced with ToInt16,   *)
(* and where it saturates the saturation is written out.                     *)
(*                                                                           *)
(* g723_1_data.h, get_bits.h, acelp_vectors.h, celp_filters.h and libavutil  *)
(* are not part of the sources at hand: their constants, tables and helpers  *)
(* are written from the specification (sizes, formulas) and, for the         *)
(* codebooks whose entries the specification does not give, as stand-in      *)
(* tables.                                                                    *)
(***************************************************************************)
EXTENDS Integers, Sequences, FiniteSets, TLC

\* ------------------------------------------------------------------ bounds
\* Decode calls explored with the postfilter off / on, and evaluations of
\* inverse_quant chained when it is explored on its own.
MaxCalls == 4
MaxCallsPF == 2
MaxIq == 2
MaxSqrtArg == 200

\* --------------------------------------------------------------- constants
CNG_RANDOM_SEED == 12345
SUBFRAMES == 4
SUBFRAME_LEN == 60
FRAME_LEN == 240
LPC_ORDER == 10
PITCH_MIN == 18
PITCH_MAX == 145
PITCH_ORDER == 5
GRID_SIZE == 2
PULSE_MAX == 6
GAIN_LEVELS == 24
INT32_MAX == 2147483647
INT32_MIN == -2147483647 - 1

\* enum FrameType, enum Rate
ACTIVE_FRAME == "ACTIVE_FRAME"
SID_FRAME == "SID_FRAME"
UNTRANSMITTED_FRAME == "UNTRANSMITTED_FRAME"
RATE_6300 == "RATE_6300"
RATE_5300 == "RATE_5300"

\* ------------------------------------------------------ integer arithmetic
FFABS(a) == IF a >= 0 THEN a ELSE -a
FFMAX(a, b) == IF a > b THEN a ELSE b
FFMIN(a, b) == IF a > b THEN b ELSE a

\* x >> k on a signed int (arithmetic shift), x << k without overflow
Shr(x, k) == x \div (2 ^ k)
Shl(x, k) == x * (2 ^ k)

\* C integer division (truncates towards zero), b > 0
CDiv(a, b) == IF a >= 0 THEN a \div b ELSE -((-a) \div b)

\* conversion to int16_t / to int (two's complement wrap)
ToInt16(x) == ((x + 32768) % 65536) - 32768

av_clip(a, amin, amax) == IF a < amin THEN amin ELSE IF a > amax THEN amax ELSE a
av_clip_int16(a) == av_clip(a, -32768, 32767)
av_clipl_int32(a) == av_clip(a, INT32_MIN, INT32_MAX)

\* saturating a + b, no intermediate leaves the 32-bit range
av_sat_add32(a, b) ==
    IF b > 0 /\ a > INT32_MAX - b THEN INT32_MAX
    ELSE IF b < 0 /\ a < INT32_MIN - b THEN INT32_MIN
    ELSE a + b
\* "add twice with saturation": sat32(sat32(a + b) + b)
av_sat_dadd32(a, b) == av_sat_add32(av_sat_add32(a, b), b)

\* floor(log2(v | 1))
RECURSIVE av_log2(_)
av_log2(v) == IF v < 2 THEN 0 ELSE 1 + av_log2(v \div 2)

\* ------------------------------------------------------------------ tables
frame_size == <<24, 20, 4, 1>>
dc_lsp == <<3131, 4721, 7690, 10806, 13872, 16495, 19752, 22260, 25484, 27718>>
cos_tab_seq ==
    <<
        16384, 16383, 16379, 16373, 16364, 16353, 16340, 16324, 16305, 16284, 16261, 16235, 16207, 16176, 16143, 16107,
        16069, 16029, 15986, 15941, 15893, 15843, 15791, 15736, 15679, 15619, 15557, 15493, 15426, 15357, 15286, 15213,
        15137, 15059, 14978, 14896, 14811, 14724, 14635, 14543, 14449, 14354, 14256, 14155, 14053, 13949, 13842, 13733,
        13623, 13510, 13395, 13279, 13160, 13039, 12916, 12792, 12665, 12537, 12406, 12274, 12140, 12004, 11866, 11727,
        11585, 11442, 11297, 11151, 11003, 10853, 10702, 10549, 10394, 10238, 10080, 9921, 9760, 9598, 9434, 9269,
        9102, 8935, 8765, 8595, 8423, 8250, 8076, 7900, 7723, 7545, 7366, 7186, 7005, 6823, 6639, 6455,
        6270, 6084, 5897, 5708, 5520, 5330, 5139, 4948, 4756, 4563, 4370, 4176, 3981, 3786, 3590, 3393,
        3196, 2999, 2801, 2603, 2404, 2205, 2006, 1806, 1606, 1406, 1205, 1005, 804, 603, 402, 201,
        0, -201, -402, -603, -804, -1005, -1205, -1406, -1606, -1806, -2006, -2205, -2404, -2603, -2801, -2999,
        -3196, -3393, -3590, -3786, -3981, -4176, -4370, -4563, -4756, -4948, -5139, -5330, -5520, -5708, -5897, -6084,
        -6270, -6455, -6639, -6823, -7005, -7186, -7366, -7545, -7723, -7900, -8076, -8250, -8423, -8595, -8765, -8935,
        -9102, -9269, -9434, -9598, -9760, -9921, -10080, -10238, -10394, -10549, -10702, -10853, -11003, -11151, -11297, -11442,
        -11585, -11727, -11866, -12004, -12140, -12274, -12406, -12537, -12665, -12792, -12916, -13039, -13160, -13279, -13395, -13510,
        -13623, -13733, -13842, -13949, -14053, -14155, -14256, -14354, -14449, -14543, -14635, -14724, -14811, -14896, -14978, -15059,
        -15137, -15213, -15286, -15357, -15426, -15493, -15557, -15619, -15679, -15736, -15791, -15843, -15893, -15941, -15986, -16029,
        -16069, -16107, -16143, -16176, -16207, -16235, -16261, -16284, -16305, -16324, -16340, -16353, -16364, -16373, -16379, -16383,
        -16384, -16383, -16379, -16373, -16364, -16353, -16340, -16324, -16305, -16284, -16261, -16235, -16207, -16176, -16143, -16107,
        -16069, -16029, -15986, -15941, -15893, -15843, -15791, -15736, -15679, -15619, -15557, -15493, -15426, -15357, -15286, -15213,
        -15137, -15059, -14978, -14896, -14811, -14724, -14635, -14543, -14449, -14354, -14256, -14155, -14053, -13949, -13842, -13733,
        -13623, -13510, -13395, -13279, -13160, -13039, -12916, -12792, -12665, -12537, -12406, -12274, -12140, -12004, -11866, -11727,
        -11585, -11442, -11297, -11151, -11003, -10853, -10702, -10549, -10394, -10238, -10080, -9921, -9760, -9598, -9434, -9269,
        -9102, -8935, -8765, -8595, -8423, -8250, -8076, -7900, -7723, -7545, -7366, -7186, -7005, -6823, -6639, -6455,
        -6270, -6084, -5897, -5708, -5520, -5330, -5139, -4948, -4756, -4563, -4370, -4176, -3981, -3786, -3590, -3393,
        -3196, -2999, -2801, -2603, -2404, -2205, -2006, -1806, -1606, -1406, -1205, -1005, -804, -603, -402, -201,
        0, 201, 402, 603, 804, 1005, 1205, 1406, 1606, 1806, 2006, 2205, 2404, 2603, 2801, 2999,
        3196, 3393, 3590, 3786, 3981, 4176, 4370, 4563, 4756, 4948, 5139, 5330, 5520, 5708, 5897, 6084,
        6270, 6455, 6639, 6823, 7005, 7186, 7366, 7545, 7723, 7900, 8076, 8250, 8423, 8595, 8765, 8935,
        9102, 9269, 9434, 9598, 9760, 9921, 10080, 10238, 10394, 10549, 10702, 10853, 11003, 11151, 11297, 11442,
        11585, 11727, 11866, 12004, 12140, 12274, 12406, 12537, 12665, 12792, 12916, 13039, 13160, 13279, 13395, 13510,
        13623, 13733, 13842, 13949, 14053, 14155, 14256, 14354, 14449, 14543, 14635, 14724, 14811, 14896, 14978, 15059,
        15137, 15213, 15286, 15357, 15426, 15493, 15557, 15619, 15679, 15736, 15791, 15843, 15893, 15941, 15986, 16029,
        16069, 16107, 16143, 16176, 16207, 16235, 16261, 16284, 16305, 16324, 16340, 16353, 16364, 16373, 16379, 16383,
        16384
    >>
cos_tab(i) == cos_tab_seq[i + 1]
fixed_cb_gain_tab ==
    <<1, 2, 3, 4, 6, 9, 13, 18, 26, 38, 55, 80, 115, 166, 240, 348, 502, 726,
      1050, 1517, 2193, 3170, 4582, 6623>>
fixed_cb_gain(i) == fixed_cb_gain_tab[i + 1]
pulses_tab == <<6, 5, 6, 5>>
pulses(i) == pulses_tab[i + 1]
max_pos_tab == <<593775, 142506, 593775, 142506>>
max_pos(i) == max_pos_tab[i + 1]
RECURSIVE Binomial(_, _)
Binomial(n, k) ==
    IF k = 0 THEN 1 ELSE IF n < k THEN 0 ELSE (Binomial(n - 1, k - 1) * n) \div k
\* combinatorial_table[j][i] = C(29 - i, 5 - j)
combinatorial_table(j, i) == Binomial(29 - i, 5 - j)
postfilter_tbl_seq ==
    << <<21299, 13844, 8999, 5849, 3802, 2471, 1606, 1044, 679, 441>>,
       <<24576, 18432, 13824, 10368, 7776, 5832, 4374, 3281, 2460, 1845>> >>
postfilter_tbl(j, k) == postfilter_tbl_seq[j + 1][k + 1]
ppf_gain_weight(rate) == IF rate = RATE_6300 THEN 6144 ELSE 8192
cng_adaptive_cb_lag_tab == <<1, 0, 1, 3>>
cng_adaptive_cb_lag(i) == cng_adaptive_cb_lag_tab[i + 1]
cng_filt0 == 273
cng_bseg_tab == <<2048, 18432, 231233>>
cng_bseg(i) == cng_bseg_tab[i + 1]

\* Stand-in codebooks: the LSP bands, the adaptive codebook gains and the
\* pitch contribution table (entries not given by the specification).
StandIn(i, k, m) == IF i = 0 THEN 0 ELSE (((i * m + k * 97) % 401) - 200) * 4
lsp_band0(i) ==
    IF i = 255 THEN <<-2700, -3000, -3000>>
    ELSE IF i = 254 THEN <<0, -1500, -4400>>
    ELSE <<StandIn(i, 0, 29), StandIn(i, 1, 29), StandIn(i, 2, 29)>>
lsp_band1(i) == <<StandIn(i, 0, 31), StandIn(i, 1, 31), StandIn(i, 2, 31)>>
lsp_band2(i) ==
    <<StandIn(i, 0, 37), StandIn(i, 1, 37), StandIn(i, 2, 37), StandIn(i, 3, 37)>>
StandInAcb(k, m) ==
    LET g == k \div 20
        t == k % 20
    IN  IF t = 2 THEN 2048 * (g % m)
        ELSE IF t = 1 \/ t = 3 THEN ((g % 3) - 1) * 512
        ELSE 0
adaptive_cb_gain85(k) == StandInAcb(k, 5)
adaptive_cb_gain170(k) == StandInAcb(k, 7)
pitch_contrib(k) ==
    LET g == k \div 2
    IN  IF k % 2 = 0 THEN (IF g % 4 = 0 THEN 60 ELSE (g % 3) - 1)
        ELSE (g % 8) * 1024

\* ------------------------------------------------------------- bit reader
\* A packet is [size |-> n, data |-> the sequence of its n bytes].  Bytes past the end read
\* as zero (the input padding).
PacketByte(pkt, i) == IF i < pkt.size THEN pkt.data[i + 1] ELSE 0

\* get_bits with BITSTREAM_READER_LE: n <= 16 bits from bit position index,
\* least significant bit first
get_bits(pkt, index, n) ==
    LET b == index \div 8
        w == PacketByte(pkt, b) + 256 * PacketByte(pkt, b + 1)
             + 65536 * PacketByte(pkt, b + 2)
    IN  (w \div (2 ^ (index % 8))) % (2 ^ n)

\* ------------------------------------------------------- unpack_bitstream
\* UnpackGains with the 170-entry limit for every subframe
RECURSIVE UnpackGains_Limit170(_, _, _)
UnpackGains_Limit170(p, pkt, i) ==
    IF i = SUBFRAMES THEN [ret |-> 0, p |-> p]
    ELSE
        LET temp0 == get_bits(pkt, 44 + 12 * i, 12)
            short == p.cur_rate = RATE_6300 /\ p.pitch_lag[(i \div 2) + 1] < SUBFRAME_LEN - 2
            dirac == IF short THEN Shr(temp0, 11) ELSE 0
            temp == IF short THEN temp0 % 2048 ELSE temp0
            gain == temp \div GAIN_LEVELS
            p1 == [p EXCEPT !.subframe[i].dirac_train = dirac,
                            !.subframe[i].ad_cb_gain = gain]
        IN  IF gain < 170
            THEN UnpackGains_Limit170(
                     [p1 EXCEPT !.subframe[i].amp_index = temp - gain * GAIN_LEVELS],
                     pkt, i + 1)
            ELSE [ret |-> -1, p |-> p1]

\* Combined gains of subframes i..3, read from bit 44 + 12 * i on; stops at
\* the first gain index out of range.
RECURSIVE UnpackGains(_, _, _)
UnpackGains(p, pkt, i) ==
    IF i = SUBFRAMES THEN [ret |-> 0, p |-> p]
    ELSE
        LET temp0 == get_bits(pkt, 44 + 12 * i, 12)
            short == p.cur_rate = RATE_6300 /\ p.pitch_lag[(i \div 2) + 1] < SUBFRAME_LEN - 2
            dirac == IF short THEN Shr(temp0, 11) ELSE 0
            temp == IF short THEN temp0 % 2048 ELSE temp0
            ad_cb_len == IF short THEN 85 ELSE 170
            gain == temp \div GAIN_LEVELS
            p1 == [p EXCEPT !.subframe[i].dirac_train = dirac,
                            !.subframe[i].ad_cb_gain = gain]
        IN  IF gain < ad_cb_len
            THEN UnpackGains([p1 EXCEPT !.subframe[i].amp_index = temp - gain * GAIN_LEVELS],
                             pkt, i + 1)
            ELSE [ret |-> -1, p |-> p1]

\* The packet of an active frame with the rate bits info_bits (0 or 1), the
\* raw 7-bit pitch lags lag[1], lag[2] and the 12-bit combined gains
\* gain[0..3] at the bit positions unpack_bitstream reads them from (lines
\* 145, 167-182), every other bit zero
ActivePacket(info_bits, lag, gain) ==
    LET BitOf(v, k) == (v \div (2 ^ k)) % 2
        Bit(n) == IF n < 2 THEN BitOf(info_bits, n)
                  ELSE IF n \in 26..32 THEN BitOf(lag[1], n - 26)
                  ELSE IF n \in 35..41 THEN BitOf(lag[2], n - 35)
                  ELSE IF n \in 44..91 THEN BitOf(gain[(n - 44) \div 12], (n - 44) % 12)
                  ELSE 0
        size == frame_size[info_bits + 1]
    IN  [size |-> size,
         data |-> [k \in 1..size |->
                      Bit(8 * k - 8) + 2 * Bit(8 * k - 7) + 4 * Bit(8 * k - 6)
                      + 8 * Bit(8 * k - 5) + 16 * Bit(8 * k - 4) + 32 * Bit(8 * k - 3)
                      + 64 * Bit(8 * k - 2) + 128 * Bit(8 * k - 1)]]

UnpackPulses6300(p, pkt) ==
    LET temp == get_bits(pkt, 97, 13)
        pos0 == temp \div 810
        t1 == temp - pos0 * 810
        pos1 == t1 \div 90
        t2 == t1 - pos1 * 90
        pos2 == t2 \div 9
        pos3 == t2 - pos2 * 9
    IN  [p EXCEPT !.subframe[0].pulse_pos = Shl(pos0, 16) + get_bits(pkt, 110, 16),
                  !.subframe[1].pulse_pos = Shl(pos1, 14) + get_bits(pkt, 126, 14),
                  !.subframe[2].pulse_pos = Shl(pos2, 16) + get_bits(pkt, 140, 16),
                  !.subframe[3].pulse_pos = Shl(pos3, 14) + get_bits(pkt, 156, 14),
                  !.subframe[0].pulse_sign = get_bits(pkt, 170, 6),
                  !.subframe[1].pulse_sign = get_bits(pkt, 176, 5),
                  !.subframe[2].pulse_sign = get_bits(pkt, 181, 6),
                  !.subframe[3].pulse_sign = get_bits(pkt, 187, 5)]

UnpackPulses5300(p, pkt) ==
    [p EXCEPT !.subframe[0].pulse_pos = get_bits(pkt, 96, 12),
              !.subframe[1].pulse_pos = get_bits(pkt, 108, 12),
              !.subframe[2].pulse_pos = get_bits(pkt, 120, 12),
              !.subframe[3].pulse_pos = get_bits(pkt, 132, 12),
              !.subframe[0].pulse_sign = get_bits(pkt, 144, 4),
              !.subframe[1].pulse_sign = get_bits(pkt, 148, 4),
              !.subframe[2].pulse_sign = get_bits(pkt, 152, 4),
              !.subframe[3].pulse_sign = get_bits(pkt, 156, 4)]

\* Returns [ret, p]: ret = -1 for a forbidden code, and p with every field
\* written up to the point of return.
unpack_bitstream(p, pkt) ==
    LET info_bits == get_bits(pkt, 0, 2)
        pl == [p EXCEPT !.lsp_index = <<get_bits(pkt, 18, 8), get_bits(pkt, 10, 8), get_bits(pkt, 2, 8)>>]
        pa == [pl EXCEPT !.cur_rate = IF info_bits # 0 THEN RATE_5300 ELSE RATE_6300,
                         !.cur_frame_type = ACTIVE_FRAME,
                         !.pitch_lag[1] = get_bits(pkt, 26, 7)]
        pb == [pa EXCEPT !.pitch_lag[1] = @ + PITCH_MIN,
                         !.subframe[1].ad_cb_lag = get_bits(pkt, 33, 2),
                         !.pitch_lag[2] = get_bits(pkt, 35, 7)]
        pc == [pb EXCEPT !.pitch_lag[2] = @ + PITCH_MIN,
                         !.subframe[3].ad_cb_lag = get_bits(pkt, 42, 2),
                         !.subframe[0].ad_cb_lag = 1,
                         !.subframe[2].ad_cb_lag = 1]
        g == UnpackGains(pc, pkt, 0)
        pg == [g.p EXCEPT !.subframe[0].grid_index = get_bits(pkt, 92, 1),
                          !.subframe[1].grid_index = get_bits(pkt, 93, 1),
                          !.subframe[2].grid_index = get_bits(pkt, 94, 1),
                          !.subframe[3].grid_index = get_bits(pkt, 95, 1)]
    IN  IF info_bits = 3
        THEN [ret |-> 0, p |-> [p EXCEPT !.cur_frame_type = UNTRANSMITTED_FRAME]]
        ELSE IF info_bits = 2
        THEN [ret |-> 0, p |-> [pl EXCEPT !.cur_frame_type = SID_FRAME,
                                          !.subframe[0].amp_index = get_bits(pkt, 26, 6)]]
        ELSE IF pa.pitch_lag[1] > 123 THEN [ret |-> -1, p |-> pa]
        ELSE IF pb.pitch_lag[2] > 123 THEN [ret |-> -1, p |-> pb]
        ELSE IF g.ret < 0 THEN g
        ELSE IF pg.cur_rate = RATE_6300
        THEN [ret |-> 0, p |-> UnpackPulses6300(pg, pkt)]
        ELSE [ret |-> 0, p |-> UnpackPulses5300(pg, pkt)]

\* ---------------------------------------------------------- inverse_quant
\* Arrays of the program are sequences; element i of a C array a is a[i + 1].
Force(f) == IF f = f THEN f ELSE f

\* The codebook entry selected by lsp_index, as the ten assignments to cur_lsp
LspEntry(lsp_index) ==
    lsp_band0(lsp_index[1]) \o lsp_band1(lsp_index[2]) \o lsp_band2(lsp_index[3])

\* cur_lsp[i] += dc_lsp[i] + (((prev_lsp[i] - dc_lsp[i]) * pred + (1 << 14)) >> 15)
LspPredict(entry, prev_lsp, pred) ==
    Force([i \in 1..LPC_ORDER |->
        ToInt16(entry[i] + dc_lsp[i]
                + Shr((prev_lsp[i] - dc_lsp[i]) * pred + 16384, 15))])

\* The gap-splitting loop "for (j = 1; j < LPC_ORDER; j++)" from index j on
RECURSIVE LspSpread(_, _, _)
LspSpread(lsp, min_dist, j) ==
    IF j = LPC_ORDER THEN lsp
    ELSE
        LET temp == min_dist + lsp[j] - lsp[j + 1]
        IN  IF temp > 0
            THEN LspSpread([lsp EXCEPT ![j] = ToInt16(@ - Shr(temp, 1)),
                                       ![j + 1] = ToInt16(@ + Shr(temp, 1))],
                           min_dist, j + 1)
            ELSE LspSpread(lsp, min_dist, j + 1)

\* LspStable with min_dist left out of the test: only the order is checked
LspStable_NoMinDist(lsp, min_dist) ==
    \A j \in 1..(LPC_ORDER - 1) : lsp[j] - lsp[j + 1] - 4 <= 0

\* The test that sets "stable"
LspStable(lsp, min_dist) ==
    \A j \in 1..(LPC_ORDER - 1) : lsp[j] + min_dist - lsp[j + 1] - 4 <= 0

\* One pass of the outer loop: clamp the end points, then split the gaps
LspPass(lsp, min_dist) ==
    LspSpread([lsp EXCEPT ![1] = FFMAX(@, 384),
                          ![LPC_ORDER] = FFMIN(@, 32256)], min_dist, 1)

\* Passes i, i + 1, ... of "for (i = 0; i < LPC_ORDER; i++)" with its break
RECURSIVE LspPasses(_, _, _)
LspPasses(lsp, min_dist, i) ==
    IF i = LPC_ORDER THEN [lsp |-> lsp, stable |-> FALSE, passes |-> i]
    ELSE
        LET nxt == LspPass(lsp, min_dist)
        IN  IF LspStable(nxt, min_dist)
            THEN [lsp |-> nxt, stable |-> TRUE, passes |-> i + 1]
            ELSE LspPasses(nxt, min_dist, i + 1)

\* LspFallback without the copy: the vector of the last pass is kept
LspFallback_NoCopy(stable, lsp, prev_lsp) == lsp

\* if (!stable) memcpy(cur_lsp, prev_lsp, ...) (lines 363-364)
LspFallback(stable, lsp, prev_lsp) == IF ~stable THEN prev_lsp ELSE lsp

\* Returns [cur_lsp, lsp_index, stable, passes]: the vector written to cur_lsp,
\* the indices as left in the context, and how the loop ended.
inverse_quant(prev_lsp, lsp_index, bad_frame) ==
    LET min_dist == IF ~bad_frame THEN 256 ELSE 512
        pred == IF ~bad_frame THEN 12288 ELSE 23552
        idx == IF ~bad_frame THEN lsp_index ELSE <<0, 0, 0>>
        r == LspPasses(LspPredict(LspEntry(idx), prev_lsp, pred), min_dist, 0)
    IN  [cur_lsp |-> LspFallback(r.stable, r.lsp, prev_lsp),
         lsp_index |-> idx, stable |-> r.stable, passes |-> r.passes,
         min_dist |-> min_dist]

\* ---------------------------------------------------------------- lsp2lpc
MULL2(a, b) == Shl(Shr(a, 16) * b, 1) + Shr((a % 65536) * b, 15)

\* av_clipl_int32(((int64_t)s << 3) + (1 << 15)) >> 16, without leaving 32 bits
ClipRound16(s) ==
    IF s >= 268431360 THEN Shr(INT32_MAX, 16)
    ELSE IF s < -268439552 THEN Shr(INT32_MIN, 16)
    ELSE Shr(s * 8 + 32768, 16)

\* "Calculate negative cosine" of one LSP frequency
NegCos(lsp) ==
    LET index == Shr(lsp, 7)
        offset == lsp % 128
        temp1 == Shl(cos_tab(index), 16)
        temp2 == Shl((cos_tab(index + 1) - cos_tab(index)) * (Shl(offset, 8) + 128), 1)
    IN  ToInt16(-Shr(av_sat_dadd32(32768, temp1 + temp2), 16))

\* One iteration i (2, 3 or 4) of the polynomial loop on f (f1 or f2, indices
\* 0..5 held at 1..6) with c = lpc[2 * i] or lpc[2 * i + 1]
RECURSIVE PolyInner(_, _, _)
PolyInner(f, c, j) ==
    IF j < 2 THEN f
    ELSE PolyInner([f EXCEPT ![j + 1] = MULL2(f[j], c) + Shr(f[j + 1], 1) + Shr(f[j - 1], 1)],
                   c, j - 1)

PolyStep(f, c, i) ==
    LET g == PolyInner([f EXCEPT ![i + 2] = f[i] + MULL2(f[i + 1], c)], c, i)
    IN  [g EXCEPT ![1] = Shr(g[1], 1),
                  ![2] = Shr(Shr(Shl(c, 16), i) + g[2], 1)]

PolyCoef(c0, c1, c2, c3, c4) ==
    PolyStep(PolyStep(PolyStep(
        <<268435456, Shl(c0, 14) + Shl(c1, 14), c0 * c1 + 536870912, 0, 0, 0>>,
        c2, 2), c3, 3), c4, 4)

\* "Convert polynomial coefficients to LPC coefficients": the last loop of
\* lsp2lpc on the two polynomials
PolyToLpc(f1, f2) ==
    Force([k \in 1..LPC_ORDER |->
        IF k <= 5
        THEN ClipRound16((f1[k + 1] + f1[k]) + (f2[k + 1] - f2[k]))
        ELSE ClipRound16((f1[LPC_ORDER - k + 2] + f1[LPC_ORDER - k + 1])
                         - (f2[LPC_ORDER - k + 2] - f2[LPC_ORDER - k + 1]))])

\* lsp2lpc on one vector of ten LSP frequencies
lsp2lpc(lsp) ==
    PolyToLpc(PolyCoef(NegCos(lsp[1]), NegCos(lsp[3]), NegCos(lsp[5]), NegCos(lsp[7]),
                       NegCos(lsp[9])),
              PolyCoef(NegCos(lsp[2]), NegCos(lsp[4]), NegCos(lsp[6]), NegCos(lsp[8]),
                       NegCos(lsp[10])))

\* ff_acelp_weighted_vector_sum
weighted_vector_sum(in_a, in_b, wa, wb, rounder, shift, length) ==
    Force([i \in 1..length |->
        av_clip_int16(Shr(in_a[i] * wa + in_b[i] * wb + rounder, shift))])

\* lsp_interpolate: the four LPC vectors of a frame, lpc[s + 1] for subframe s
lsp_interpolate(cur_lsp, prev_lsp) ==
    << lsp2lpc(weighted_vector_sum(cur_lsp, prev_lsp, 4096, 12288, 8192, 14, LPC_ORDER)),
       lsp2lpc(weighted_vector_sum(cur_lsp, prev_lsp, 8192, 8192, 8192, 14, LPC_ORDER)),
       lsp2lpc(weighted_vector_sum(cur_lsp, prev_lsp, 12288, 4096, 8192, 14, LPC_ORDER)),
       lsp2lpc(cur_lsp) >>

\* ----------------------------------------------------- excitation vectors
Zeros(n) == [i \in 1..n |-> 0]

\* gen_dirac_train on the first SUBFRAME_LEN samples of buf
gen_dirac_train(buf, pitch_lag) ==
    LET Copies(k) == {m \in 1..(SUBFRAME_LEN \div pitch_lag) : m * pitch_lag <= k}
        RECURSIVE Acc(_, _)
        Acc(k, m) == IF m * pitch_lag > k THEN 0
                     ELSE buf[k - m * pitch_lag + 1] + Acc(k, m + 1)
    IN  Force([i \in 1..Len(buf) |->
            IF i <= SUBFRAME_LEN /\ Copies(i - 1) # {}
            THEN ToInt16(buf[i] + Acc(i - 1, 1)) ELSE buf[i]])

\* The pulse decoding loop of the 6300 bps branch from position i on;
\* v is the vector, temp and j the loop's variables.
RECURSIVE FcbPulses(_, _, _, _, _)
FcbPulses(v, subfrm, temp, j, i) ==
    IF i = SUBFRAME_LEN \div GRID_SIZE THEN v
    ELSE
        LET t1 == temp - combinatorial_table(j, i)
            t2 == t1 + combinatorial_table(j, i)
            amp == IF (subfrm.pulse_sign \div (2 ^ (PULSE_MAX - (j + 1)))) % 2 = 1
                   THEN -fixed_cb_gain(subfrm.amp_index)
                   ELSE fixed_cb_gain(subfrm.amp_index)
            v1 == [v EXCEPT ![subfrm.grid_index + GRID_SIZE * i + 1] = amp]
        IN  IF t1 >= 0 THEN FcbPulses(v, subfrm, t1, j, i + 1)
            ELSE IF j + 1 = PULSE_MAX THEN v1
            ELSE FcbPulses(v1, subfrm, t2, j + 1, i + 1)

\* FcbPulses5300 with the pulses four samples apart instead of two
RECURSIVE FcbPulses5300_Wide(_, _, _, _, _, _)
FcbPulses5300_Wide(v, cb_gain, cb_shift, cb_sign, cb_pos, i) ==
    IF i = 8 THEN v
    ELSE
        LET offset == Shl(cb_pos % 8, 3) + cb_shift + 2 * i
        IN  FcbPulses5300_Wide([v EXCEPT ![offset + 1] = IF cb_sign % 2 = 1 THEN cb_gain
                                                         ELSE -cb_gain],
                               cb_gain, cb_shift, Shr(cb_sign, 1), Shr(cb_pos, 3), i + 2)

\* The four pulses of the 5300 bps branch, pulse i / 2 written at i = 0, 2, 4, 6
RECURSIVE FcbPulses5300(_, _, _, _, _, _)
FcbPulses5300(v, cb_gain, cb_shift, cb_sign, cb_pos, i) ==
    IF i = 8 THEN v
    ELSE
        LET offset == Shl(cb_pos % 8, 3) + cb_shift + i
        IN  FcbPulses5300([v EXCEPT ![offset + 1] = IF cb_sign % 2 = 1 THEN cb_gain ELSE -cb_gain],
                          cb_gain, cb_shift, Shr(cb_sign, 1), Shr(cb_pos, 3), i + 2)

\* "Enhance harmonic components": vector[i] += beta * vector[i - lag] >> 15
FcbHarmonic(v, lag, beta) ==
    LET nv[i \in 1..Len(v)] ==
            IF i <= lag \/ i > SUBFRAME_LEN THEN v[i]
            ELSE ToInt16(v[i] + Shr(beta * nv[i - lag], 15))
    IN  Force([i \in 1..Len(v) |-> nv[i]])

\* gen_fcb_excitation.  The vector has SUBFRAME_LEN + 4 entries: the function
\* clears the first SUBFRAME_LEN, and a 5300 bps pulse offset can reach the
\* four samples behind them, which arrive in tail as the buffer holds them.
gen_fcb_excitation(tail, subfrm, cur_rate, pitch_lag, index) ==
    LET v0 == Zeros(SUBFRAME_LEN) \o tail
    IN  IF cur_rate = RATE_6300
        THEN IF subfrm.pulse_pos >= max_pos(index) THEN v0
             ELSE LET v1 == FcbPulses(v0, subfrm, subfrm.pulse_pos,
                                      PULSE_MAX - pulses(index), 0)
                  IN  IF subfrm.dirac_train = 1
                      THEN gen_dirac_train(v1, pitch_lag) ELSE v1
        ELSE LET v1 == FcbPulses5300(v0, fixed_cb_gain(subfrm.amp_index),
                                     subfrm.grid_index, subfrm.pulse_sign,
                                     subfrm.pulse_pos, 0)
                 lag == pitch_contrib(Shl(subfrm.ad_cb_gain, 1)) + pitch_lag
                        + subfrm.ad_cb_lag - 1
                 beta == pitch_contrib(Shl(subfrm.ad_cb_gain, 1) + 1)
             IN  IF lag < SUBFRAME_LEN - 2 THEN FcbHarmonic(v1, lag, beta) ELSE v1

\* get_residual; prev_excitation is the buffer and base the index of its
\* first sample
get_residual(buf, base, lag) ==
    LET offset == PITCH_MAX - (PITCH_ORDER \div 2) - lag
    IN  Force([k \in 1..(SUBFRAME_LEN + PITCH_ORDER - 1) |->
            IF k <= 2 THEN buf[base + offset + k]
            ELSE buf[base + offset + 2 + ((k - 3) % lag) + 1]])

\* dot_product of a[ia .. ia + n - 1] and b[ib ..] (0-based starts), continued
\* from the running sum; the range is halved to keep the evaluation shallow
RECURSIVE DotFrom(_, _, _, _, _, _)
DotFrom(a, ia, b, ib, n, sum) ==
    IF n = 0 THEN sum
    ELSE IF n = 1 THEN av_sat_dadd32(sum, a[ia + 1] * b[ib + 1])
    ELSE LET h == n \div 2
             l == DotFrom(a, ia, b, ib, h, sum)
         IN  IF l = l THEN DotFrom(a, ia + h, b, ib + h, n - h, l) ELSE l

dot_product(a, ia, b, ib, length) == DotFrom(a, ia, b, ib, length, 0)

\* gen_acb_excitation: the SUBFRAME_LEN samples of the adaptive vector
gen_acb_excitation(buf, base, pitch_lag, subfrm, cur_rate) ==
    LET lag == pitch_lag + subfrm.ad_cb_lag - 1
        residual == get_residual(buf, base, lag)
        small == cur_rate = RATE_6300 /\ pitch_lag < SUBFRAME_LEN - 2
        cb == [t \in 1..PITCH_ORDER |->
                  IF small THEN adaptive_cb_gain85(subfrm.ad_cb_gain * 20 + t - 1)
                  ELSE adaptive_cb_gain170(subfrm.ad_cb_gain * 20 + t - 1)]
    IN  Force([i \in 1..SUBFRAME_LEN |->
            Shr(av_sat_dadd32(32768, dot_product(residual, i - 1, cb, 0, PITCH_ORDER)), 16)])

\* ------------------------------------------------------------ square_root
RECURSIVE SqrtFrom(_, _, _, _)
SqrtFrom(val, res, exp, i) ==
    IF i = 14 THEN res
    ELSE LET res_exp == res + exp
         IN  SqrtFrom(val, IF val >= Shl(res_exp * res_exp, 1) THEN res + exp ELSE res,
                      Shr(exp, 1), i + 1)

\* square_root starting at 0x2000
square_root_FromBit13(val) == SqrtFrom(val, 0, 8192, 0)

square_root(val) == SqrtFrom(val, 0, 16384, 0)

normalize_bits(num, width) == width - av_log2(num) - 1

\* Largest FFABS over v[lo .. hi] (1-based, lo <= hi)
RECURSIVE MaxAbs(_, _, _)
MaxAbs(v, lo, hi) ==
    IF lo = hi THEN FFABS(v[lo])
    ELSE LET m == (lo + hi) \div 2
             l == MaxAbs(v, lo, m)
         IN  IF l = l THEN FFMAX(l, MaxAbs(v, m + 1, hi)) ELSE l

\* scale_vector on vector[base .. base + length - 1] (0-based): the shift
\* returned and the scaled copy.  "max |= FFABS" only feeds av_log2 after the
\* FFMIN, and the OR of the magnitudes has the top bit of the largest.
scale_vector(vector, base, length) ==
    LET max == FFMIN(MaxAbs(vector, base + 1, base + length), 32767)
        bits == normalize_bits(max, 15)
    IN  [ret |-> bits - 3,
         dst |-> Force([i \in 1..length |-> ToInt16(Shr(Shl(vector[base + i], bits), 3))])]

\* ------------------------------------------------------------ autocorr_max
\* Iterations i, i + 1, ..., limit of the search loop
RECURSIVE AutocorrFrom(_, _, _, _, _, _, _, _)
AutocorrFrom(buf, base, length, dir, i, limit, ccr_max, lag) ==
    IF i > limit THEN [lag |-> lag, ccr_max |-> ccr_max]
    ELSE LET ccr == dot_product(buf, base, buf, base + dir * i, length)
         IN  IF ccr > ccr_max
             THEN AutocorrFrom(buf, base, length, dir, i + 1, limit, ccr, i)
             ELSE AutocorrFrom(buf, base, length, dir, i + 1, limit, ccr_max, lag)

\* AutocorrLags without the clamp of the forward limit
AutocorrLags_NoClamp(offset, pitch_lag, length, dir) ==
    (FFMIN(PITCH_MAX - 3, pitch_lag) - 3)..(FFMIN(PITCH_MAX - 3, pitch_lag) + 3)

\* The lags i the search loop of autocorr_max runs through (lines 623-630)
AutocorrLags(offset, pitch_lag, length, dir) ==
    LET pl == FFMIN(PITCH_MAX - 3, pitch_lag)
        limit == IF dir > 0
                 THEN FFMIN(FRAME_LEN + PITCH_MAX - offset - length, pl + 3)
                 ELSE pl + 3
    IN  (pl - 3)..limit

\* buf is the array and base the 0-based index the C pointer refers to
autocorr_max(buf, base, offset, ccr_max, pitch_lag, length, dir) ==
    LET pl == FFMIN(PITCH_MAX - 3, pitch_lag)
        limit == IF dir > 0
                 THEN FFMIN(FRAME_LEN + PITCH_MAX - offset - length, pl + 3)
                 ELSE pl + 3
    IN  AutocorrFrom(buf, base, length, dir, pl - 3, limit, ccr_max, 0)

\* -------------------------------------------------------- comp_interp_index
\* Returns the index, the values stored through exc_eng and scale, and the
\* context with p->audio as written.
comp_interp_index(p, pitch_lag) ==
    LET offset == PITCH_MAX + 2 * SUBFRAME_LEN
        sv == scale_vector(p.excitation, 0, FRAME_LEN + PITCH_MAX)
        aud == Force([k \in 1..Len(p.audio) |->
                  IF k > LPC_ORDER /\ k <= LPC_ORDER + FRAME_LEN + PITCH_MAX
                  THEN sv.dst[k - LPC_ORDER] ELSE p.audio[k]])
        b == LPC_ORDER + offset
        am == autocorr_max(aud, b, offset, 0, pitch_lag, SUBFRAME_LEN * 2, -1)
        ccr == Shr(av_sat_add32(am.ccr_max, 32768), 16)
        tgt_eng == dot_product(aud, b, aud, b, SUBFRAME_LEN * 2)
        exc_eng == Shr(av_sat_add32(tgt_eng, 32768), 16)
        best0 == dot_product(aud, b - am.lag, aud, b - am.lag, SUBFRAME_LEN * 2)
        best_eng == Shr(av_sat_add32(best0, 32768), 16)
        temp == Shr(best_eng * exc_eng, 3)
    IN  IF p # p THEN p
        ELSE [index |-> IF ccr <= 0 THEN 0 ELSE IF temp < ccr * ccr THEN am.lag ELSE 0,
              exc_eng |-> exc_eng, scale |-> sv.ret, p |-> [p EXCEPT !.audio = aud]]

\* ---------------------------------------------------------- residual_interp
\* a * b reduced to 32 bits two's complement, for |a| < 2^15
MulWrap32(a, b) ==
    LET lo == b % 65536
        hi == Shr(b, 16)
        t == a * lo
    IN  ToInt16(a * hi + Shr(t, 16)) * 65536 + (t % 65536)

AddWrap32(a, c) ==
    LET lo == (a % 65536) + c
    IN  ToInt16(Shr(a, 16) + Shr(lo, 16)) * 65536 + (lo % 65536)

\* *rseed = *rseed * 521 + 259, as the 32-bit multiply and add compute it
NextSeed(rseed) == AddWrap32(MulWrap32(521, rseed), 259)

\* *rseed * 521 + 259 (line 841) is computed without leaving the range of int
SeedFits(rseed) ==
    /\ rseed <= (INT32_MAX - 259) \div 521
    /\ rseed >= -(((INT32_MAX - 261) \div 521) + 1)

\* a * b is computed without leaving the range of int (gain * *rseed, line
\* 842)
MulFits32(a, b) ==
    LET m == FFABS(a)
        top == INT32_MAX \div m
        bottom == IF INT32_MAX % m = m - 1 THEN top + 1 ELSE top
    IN  \/ a = 0
        \/ a = INT32_MIN /\ b \in {0, 1}
        \/ /\ a # INT32_MIN
           /\ (IF a > 0 THEN b <= top /\ b >= -bottom
               ELSE b >= -top /\ b <= bottom)

\* The n seeds that follow rseed
RECURSIVE Seeds(_, _)
Seeds(rseed, n) ==
    IF n = 1 THEN <<NextSeed(rseed)>>
    ELSE LET h == n \div 2
             l == Seeds(rseed, h)
         IN  IF l = l THEN l \o Seeds(l[h], n - h) ELSE l

\* The unvoiced loop of residual_interp (lines 840-843) from *rseed = rseed
\* computes every seed and every product within the range of int
UnvoicedFits(gain, rseed) ==
    LET s == <<rseed>> \o Seeds(rseed, FRAME_LEN)
    IN  \A i \in 1..FRAME_LEN : SeedFits(s[i]) /\ MulFits32(gain, s[i + 1])

\* buf is p->excitation; returns buf, the FRAME_LEN samples of out and *rseed
residual_interp(buf, lag, gain, rseed) ==
    IF lag # 0
    THEN [buf |-> buf,
          out |-> Force([i \in 1..FRAME_LEN |->
                     ToInt16(Shr(buf[PITCH_MAX + ((i - 1) % lag) - lag + 1] * 3, 2))]),
          rseed |-> rseed]
    ELSE LET s == Seeds(rseed, FRAME_LEN)
         IN  [buf |-> Force([k \in 1..Len(buf) |->
                         IF k <= FRAME_LEN + PITCH_MAX THEN 0 ELSE buf[k]]),
              out |-> Force([i \in 1..FRAME_LEN |-> ToInt16(Shr(MulWrap32(gain, s[i]), 15))]),
              rseed |-> s[FRAME_LEN]]

\* ------------------------------------------------------ pitch postfilter
\* comp_ppf_gains: the PPFParam record
comp_ppf_gains(lag, cur_rate, tgt_eng, ccr, res_eng) ==
    LET temp1 == Shr(tgt_eng * res_eng, 1)
        temp2 == Shl(ccr * ccr, 1)
        og == IF ccr >= res_eng THEN ppf_gain_weight(cur_rate)
              ELSE Shr(CDiv(Shl(ccr, 15), res_eng) * ppf_gain_weight(cur_rate), 15)
        t1 == Shl(tgt_eng, 15) + Shl(ccr * og, 1)
        t2 == Shr(og * og, 15) * res_eng
        pf_residual == Shr(av_sat_add32(t1, t2 + 32768), 16)
        t3 == IF tgt_eng >= Shl(pf_residual, 1) THEN 32767
              ELSE CDiv(Shl(tgt_eng, 14), pf_residual)
        opt_gain == IF temp2 > temp1 THEN og ELSE 0
        sc_gain == IF temp2 > temp1 THEN square_root(Shl(t3, 16)) ELSE 32767
    IN  [index |-> lag, sc_gain |-> sc_gain,
         opt_gain |-> av_clip_int16(Shr(opt_gain * sc_gain, 15))]

\* comp_ppf_coeff on p->audio (audio) for the subframe at offset
comp_ppf_coeff(audio, offset, pitch_lag, cur_rate) ==
    LET b == LPC_ORDER + offset
        fwd == autocorr_max(audio, b, offset, 0, pitch_lag, SUBFRAME_LEN, 1)
        back == autocorr_max(audio, b, offset, 0, pitch_lag, SUBFRAME_LEN, -1)
        fwd_lag == fwd.lag
        back_lag == back.lag
        e0 == dot_product(audio, b, audio, b, SUBFRAME_LEN)
        e2 == IF fwd_lag # 0
              THEN dot_product(audio, b + fwd_lag, audio, b + fwd_lag, SUBFRAME_LEN) ELSE 0
        e4 == IF back_lag # 0
              THEN dot_product(audio, b - back_lag, audio, b - back_lag, SUBFRAME_LEN) ELSE 0
        temp1 == FFMAX(e4, FFMAX(back.ccr_max, FFMAX(e2, FFMAX(fwd.ccr_max, FFMAX(e0, 0)))))
        scale == normalize_bits(temp1, 31)
        energy == [i \in 0..4 |->
                     Shr(Shl(CASE i = 0 -> e0 [] i = 1 -> fwd.ccr_max [] i = 2 -> e2
                               [] i = 3 -> back.ccr_max [] OTHER -> e4, scale), 16)]
        c1 == energy[4] * Shr(energy[1] * energy[1] + 16384, 15)
        c2 == energy[2] * Shr(energy[3] * energy[3] + 16384, 15)
    IN  IF back_lag = 0 /\ fwd_lag = 0
        THEN [index |-> 0, sc_gain |-> 32767, opt_gain |-> 0]
        ELSE IF fwd_lag # 0 /\ back_lag = 0
        THEN comp_ppf_gains(fwd_lag, cur_rate, energy[0], energy[1], energy[2])
        ELSE IF fwd_lag = 0
        THEN comp_ppf_gains(-back_lag, cur_rate, energy[0], energy[3], energy[4])
        ELSE IF c1 >= c2
        THEN comp_ppf_gains(fwd_lag, cur_rate, energy[0], energy[1], energy[2])
        ELSE comp_ppf_gains(-back_lag, cur_rate, energy[0], energy[3], energy[4])

\* PpfWeightedSum without the rounding term 1 << 14
PpfWeightedSum_NoRound(excitation, ppf) ==
    Force([k \in 1..FRAME_LEN |->
        av_clip_int16(Shr(excitation[PITCH_MAX + k] * ppf[(k - 1) \div SUBFRAME_LEN].sc_gain
                          + excitation[PITCH_MAX + k + ppf[(k - 1) \div SUBFRAME_LEN].index]
                            * ppf[(k - 1) \div SUBFRAME_LEN].opt_gain,
                          15))])

\* The loop of ff_acelp_weighted_vector_sum calls (lines 1275-1281) with the
\* parameter sets ppf[0 .. 3]
PpfWeightedSum(excitation, ppf) ==
    Force([k \in 1..FRAME_LEN |->
        av_clip_int16(Shr(excitation[PITCH_MAX + k] * ppf[(k - 1) \div SUBFRAME_LEN].sc_gain
                          + excitation[PITCH_MAX + k + ppf[(k - 1) \div SUBFRAME_LEN].index]
                            * ppf[(k - 1) \div SUBFRAME_LEN].opt_gain
                          + 16384, 15))])

\* The pitch postfilter of the frame driver: the four parameter sets and the
\* FRAME_LEN filtered samples stored at p->audio + LPC_ORDER
PitchPostfilter(audio, excitation, pitch_lag, cur_rate) ==
    PpfWeightedSum(excitation,
                   Force([j \in 0..(SUBFRAMES - 1) |->
                       comp_ppf_coeff(audio, PITCH_MAX + SUBFRAME_LEN * j,
                                      pitch_lag[(j \div 2) + 1], cur_rate)]))

\* ------------------------------------------------- ff_celp_lp_synthesis_filter
\* One output sample: hist holds out[n - 10 .. n - 1].  The seventh argument
\* of the call is the right shift applied before the clip (the unfiltered
\* output "should be scaled by 2").
SynthSample(coeffs, hist, x, shift, rounder) ==
    LET sum == -rounder
               + coeffs[1] * hist[10] + coeffs[2] * hist[9] + coeffs[3] * hist[8]
               + coeffs[4] * hist[7] + coeffs[5] * hist[6] + coeffs[6] * hist[5]
               + coeffs[7] * hist[4] + coeffs[8] * hist[3] + coeffs[9] * hist[2]
               + coeffs[10] * hist[1]
    IN  av_clip_int16(Shr(Shr(-sum, 12) + x, shift))

Last10(s) == SubSeq(s, Len(s) - LPC_ORDER + 1, Len(s))

\* n output samples for the input in[base + 1 .. base + n] (1-based)
RECURSIVE SynthFrom(_, _, _, _, _, _, _)
SynthFrom(coeffs, hist, in, base, n, shift, rounder) ==
    IF n = 1 THEN <<SynthSample(coeffs, hist, in[base + 1], shift, rounder)>>
    ELSE LET h == n \div 2
             l == SynthFrom(coeffs, hist, in, base, h, shift, rounder)
         IN  IF l = l
             THEN l \o SynthFrom(coeffs, Last10(hist \o l), in, base + h, n - h,
                                 shift, rounder)
             ELSE l

\* The synthesis loop of the frame driver: mem is synth_mem, lpc the four
\* coefficient vectors, in[base + 1 ..] the FRAME_LEN input samples.  Returns
\* p->audio[LPC_ORDER .. LPC_ORDER + FRAME_LEN - 1].
RECURSIVE SynthFrame(_, _, _, _, _)
SynthFrame(mem, lpc, in, base, j) ==
    IF j = SUBFRAMES THEN <<>>
    ELSE LET s == SynthFrom(lpc[j + 1], mem, in, base + SUBFRAME_LEN * j,
                            SUBFRAME_LEN, 1, 4096)
         IN  IF s = s THEN s \o SynthFrame(Last10(s), lpc, in, base, j + 1) ELSE s

\* ------------------------------------------------------ formant postfilter
\* One sample of iir_filter.  srch holds src[m - 10 .. m - 1], desth holds
\* dest[m - 10 .. m - 1], x is src[m].  The 64-bit accumulator is kept as
\* filter = H * 2^13 + L, each product split at bit 13, so that
\* (x << 16) + (filter << 3) + (1 << 15) = (x + H + carry) * 2^16 + low.
IirTerm(fir, iir, srch, desth, n) ==
    iir[n] * Shr(desth[LPC_ORDER + 1 - n], 16) - fir[n] * srch[LPC_ORDER + 1 - n]

RECURSIVE IirHigh(_, _, _, _, _)
IirHigh(fir, iir, srch, desth, n) ==
    IF n = 0 THEN 0
    ELSE Shr(IirTerm(fir, iir, srch, desth, n), 13) + IirHigh(fir, iir, srch, desth, n - 1)

RECURSIVE IirLow(_, _, _, _, _)
IirLow(fir, iir, srch, desth, n) ==
    IF n = 0 THEN 0
    ELSE (IirTerm(fir, iir, srch, desth, n) % 8192) + IirLow(fir, iir, srch, desth, n - 1)

IirSample(fir, iir, srch, desth, x) ==
    LET low == 8 * IirLow(fir, iir, srch, desth, LPC_ORDER) + 32768
        hi == x + IirHigh(fir, iir, srch, desth, LPC_ORDER) + Shr(low, 16)
    IN  IF hi > 32767 THEN INT32_MAX
        ELSE IF hi < -32768 THEN INT32_MIN
        ELSE hi * 65536 + (low % 65536)

\* iir_filter on n samples src[base + 1 .. base + n] (1-based) with the ten
\* samples before them in src, and desth the ten previous outputs
RECURSIVE IirFrom(_, _, _, _, _, _)
IirFrom(fir, iir, src, base, desth, n) ==
    IF n = 1
    THEN <<IirSample(fir, iir, SubSeq(src, base - LPC_ORDER + 1, base), desth, src[base + 1])>>
    ELSE LET h == n \div 2
             l == IirFrom(fir, iir, src, base, desth, h)
         IN  IF l = l
             THEN l \o IirFrom(fir, iir, src, base + h, Last10(desth \o l), n - h)
             ELSE l

iir_filter(fir, iir, src, base, desth) == IirFrom(fir, iir, src, base, desth, SUBFRAME_LEN)

\* filter_coef[t][k] for the coefficients lpc of one subframe
FilterCoef(lpc, t) ==
    [k \in 1..LPC_ORDER |-> ToInt16(Shr(-lpc[k] * postfilter_tbl(t, k - 1) + 16384, 15))]

\* The first loop of formant_postfilter: filter_signal[LPC_ORDER ..] for
\* subframes j .. 3; buf is p->audio with fir_mem copied to its head
RECURSIVE FormantIir(_, _, _, _)
FormantIir(lpc, buf, desth, j) ==
    IF j = SUBFRAMES THEN <<>>
    ELSE LET s == iir_filter(FilterCoef(lpc[j + 1], 0), FilterCoef(lpc[j + 1], 1),
                             buf, LPC_ORDER + SUBFRAME_LEN * j, desth)
         IN  IF s = s THEN s \o FormantIir(lpc, buf, Last10(s), j + 1) ELSE s

\* The recurrence p->pf_gain = (15 * p->pf_gain + gain + (1 << 3)) >> 4, n times
RECURSIVE PfGains(_, _, _)
PfGains(pf_gain, gain, n) ==
    IF n = 1 THEN <<Shr(15 * pf_gain + gain + 8, 4)>>
    ELSE LET h == n \div 2
             l == PfGains(pf_gain, gain, h)
         IN  IF l = l THEN l \o PfGains(l[h], gain, n - h) ELSE l

\* Sum of (buf[i] >> 2)^2 with av_sat_dadd32 over buf[lo .. hi] (1-based)
RECURSIVE GainDenom(_, _, _, _)
GainDenom(buf, lo, hi, sum) ==
    IF lo = hi THEN av_sat_dadd32(sum, Shr(buf[lo], 2) * Shr(buf[lo], 2))
    ELSE LET m == (lo + hi) \div 2
             l == GainDenom(buf, lo, m, sum)
         IN  IF l = l THEN GainDenom(buf, m + 1, hi, l) ELSE l

\* gain_scale: the scaled subframe and the new p->pf_gain
gain_scale(pf_gain, buf, energy) ==
    LET denom == GainDenom(buf, 1, SUBFRAME_LEN, 0)
        bits1 == normalize_bits(energy, 31)
        bits2 == normalize_bits(denom, 31)
        num == Shr(Shl(energy, bits1), 1)
        den == Shl(denom, bits2)
        sh == FFMAX(0, 5 + bits1 - bits2)
        g0 == CDiv(Shr(num, 1), Shr(den, 16))
        gain == IF energy # 0 /\ denom # 0 THEN square_root(Shr(Shl(g0, 16), sh))
                ELSE 4096
        pf == PfGains(pf_gain, gain, SUBFRAME_LEN)
    IN  [buf |-> Force([i \in 1..SUBFRAME_LEN |->
                    av_clip_int16(Shr(buf[i] * (pf[i] + Shr(pf[i], 4)) + 1024, 11))]),
         pf_gain |-> pf[SUBFRAME_LEN]]

\* av_clipl_int32((int64_t)a << k) for a >= 0
ClipShl(a, k) == IF a > Shr(INT32_MAX, k) THEN INT32_MAX ELSE Shl(a, k)

\* The second loop of formant_postfilter for subframes i .. 3: buf is p->audio,
\* signal is filter_signal (its element k at signal[k + 1]).  Returns the
\* output samples and the final reflection_coef and pf_gain.
RECURSIVE FormantTilt(_, _, _, _, _)
FormantTilt(buf, signal, reflection_coef, pf_gain, i) ==
    IF i = SUBFRAMES
    THEN [dst |-> <<>>, reflection_coef |-> reflection_coef, pf_gain |-> pf_gain]
    ELSE
        LET b == LPC_ORDER + SUBFRAME_LEN * i
            sv == scale_vector(buf, b, SUBFRAME_LEN)
            ac0 == dot_product(sv.dst, 0, sv.dst, 1, SUBFRAME_LEN - 1)
            ac1 == dot_product(sv.dst, 0, sv.dst, 0, SUBFRAME_LEN)
            t0 == Shr(ac1, 16)
            t1 == IF t0 # 0 THEN CDiv(Shr(ac0, 2), t0) ELSE t0
            refl == Shr(3 * reflection_coef + t1 + 2, 2)
            tilt == Shr(-refl, 1) - (Shr(-refl, 1) % 4)
            comp == Force([j \in 1..SUBFRAME_LEN |->
                       ToInt16(Shr(av_sat_dadd32(signal[b + j],
                                                 Shr(signal[b + j - 1], 16) * tilt), 16))])
            temp == 2 * sv.ret + 4
            energy == IF temp < 0 THEN ClipShl(ac1, -temp) ELSE Shr(ac1, temp)
            gs == gain_scale(pf_gain, comp, energy)
            rest == FormantTilt(buf, signal, refl, gs.pf_gain, i + 1)
        IN  IF gs = gs
            THEN [dst |-> gs.buf \o rest.dst, reflection_coef |-> rest.reflection_coef,
                  pf_gain |-> rest.pf_gain]
            ELSE rest

\* What formant_postfilter leaves behind: buf is p->audio after line 929,
\* signal is filter_signal, t the result of the second loop
FormantStored(p, buf, signal, t) ==
    [p |-> [p EXCEPT !.audio = buf,
                     !.fir_mem = SubSeq(buf, FRAME_LEN + 1, FRAME_LEN + LPC_ORDER),
                     !.iir_mem = SubSeq(signal, FRAME_LEN + 1, FRAME_LEN + LPC_ORDER),
                     !.reflection_coef = t.reflection_coef,
                     !.pf_gain = t.pf_gain],
     dst |-> t.dst]

\* formant_postfilter on buf0 = p->audio: the context as the function leaves
\* it and the FRAME_LEN samples written to dst
formant_postfilter(p, lpc, buf0) ==
    LET buf == p.fir_mem \o SubSeq(buf0, LPC_ORDER + 1, Len(buf0))
        signal == p.iir_mem \o FormantIir(lpc, buf, p.iir_mem, 0)
    IN  FormantStored(p, buf, signal,
                      FormantTilt(buf, signal, p.reflection_coef, p.pf_gain, 0))

\* ------------------------------------------------- comfort noise generator
sid_gain_to_lsp_index(gain) ==
    IF gain < 16 THEN Shl(gain, 6)
    ELSE IF gain < 32 THEN Shl(gain - 8, 7)
    ELSE Shl(gain - 20, 8)

\* cng_rand: the state after the call, and the value returned for that state
CngNext(state) == (state * 521 + 259) % 65536
CngValue(state, base) == Shr((state % 32768) * base, 15)

\* v << k for v >= 0, reduced to 32 bits two's complement
ShlWrap32(v, k) ==
    LET w == IF k = 1 THEN v ELSE v % (2 ^ (32 - k))
    IN  IF w >= 2 ^ (31 - k) THEN (w - 2 ^ (31 - k)) * (2 ^ k) + INT32_MIN
        ELSE w * (2 ^ k)

\* The successive-approximation loop of estimate_sid_gain
RECURSIVE SidGainSearch(_, _, _, _, _, _, _)
SidGainSearch(x, seg, seg2, val, val_add, i, shift) ==
    IF i = shift THEN val
    ELSE LET t == seg * 32 + Shl(val, seg2)
         IN  SidGainSearch(x, seg, seg2,
                           IF x >= t * t THEN val + val_add ELSE val - val_add,
                           Shr(val_add, 1), i + 1, shift)

estimate_sid_gain(p) ==
    LET sh == 16 - p.cur_gain * 2
        t0 == IF sh > 0 THEN ShlWrap32(p.sid_gain, sh) ELSE Shr(p.sid_gain, -sh)
        x == Shr(MulWrap32(cng_filt0, t0), 16)
        shift == IF x >= cng_bseg(1) THEN 4 ELSE 3
        seg == IF x >= cng_bseg(1) THEN 3 ELSE IF x >= cng_bseg(0) THEN 1 ELSE 0
        seg2 == FFMIN(seg, 3)
        val == SidGainSearch(x, seg, seg2, Shl(1, shift), Shr(Shl(1, shift), 1), 0, shift)
        t == seg * 32 + Shl(val, seg2)
        y == t * t - x
        tu == seg * 32 + Shl(val + 1, seg2)
        td == seg * 32 + Shl(val - 1, seg2)
        v2 == Shl(seg2 - 1, 4) + val
    IN  IF x >= cng_bseg(2) THEN 63
        ELSE IF y <= 0
        THEN (IF tu * tu - x >= y THEN v2 + 1 ELSE v2)
        ELSE (IF td * td - x >= y THEN v2 - 1 ELSE v2)

\* The n states of cng_random_seed that follow state
RECURSIVE CngStates(_, _)
CngStates(state, n) ==
    IF n = 0 THEN <<>> ELSE <<CngNext(state)>> \o CngStates(CngNext(state), n - 1)

\* CngPositions without the removal of the drawn entry (line 1099)
RECURSIVE CngPositions_Replace(_, _, _, _, _)
CngPositions_Replace(tmp, t, seeds, off, n) ==
    IF n = 0 THEN <<>>
    ELSE LET idx2 == CngValue(Head(seeds), t)
         IN  <<tmp[idx2 + 1] * 2 + off>>
             \o CngPositions_Replace(tmp, t - 1, Tail(seeds), off, n - 1)

\* The pulse positions of one subframe: tmp is the list of free half
\* positions, t their number, seeds the states of the remaining draws
RECURSIVE CngPositions(_, _, _, _, _)
CngPositions(tmp, t, seeds, off, n) ==
    IF n = 0 THEN <<>>
    ELSE LET idx2 == CngValue(Head(seeds), t)
         IN  <<tmp[idx2 + 1] * 2 + off>>
             \o CngPositions([tmp EXCEPT ![idx2 + 1] = tmp[t]], t - 1, Tail(seeds), off, n - 1)

\* off[2 i], off[2 i + 1] of a subframe pair drawn from t (lines 1081-1082)
CngOff(t) == <<t % 2, (Shr(t, 1) % 2) + SUBFRAME_LEN>>

\* pos[11 i .. 11 i + 10]: the 6 + 5 pulse positions of a subframe pair
\* (lines 1091-1101), seeds the states of its 11 draws
CngPairPositions(seeds, off) ==
    CngPositions([j \in 1..(SUBFRAME_LEN \div 2) |-> j - 1], SUBFRAME_LEN \div 2,
                 SubSeq(seeds, 1, 6), off[1], 6)
    \o CngPositions([j \in 1..(SUBFRAME_LEN \div 2) |-> j - 1], SUBFRAME_LEN \div 2,
                    SubSeq(seeds, 7, 11), off[2], 5)

\* signs[j] of the 11 pulses of a subframe pair drawn from t (already >> 2)
CngSigns(t) == [j \in 1..11 |-> Shl(((Shr(t, j - 1) % 2) * 2) - 1, 14)]

\* Adds the pulses idx .. 11 of a pair to the vector at vb
RECURSIVE CngAddPulses(_, _, _, _, _, _)
CngAddPulses(aud, vb, pos, signs, x, j) ==
    IF j > 11 THEN aud
    ELSE CngAddPulses([aud EXCEPT ![vb + pos[j] + 1] =
                           av_clip_int16(@ + Shr(x * signs[j], 15))],
                      vb, pos, signs, x, j + 1)

\* b0 * 2 * 2979LL + (1 << 29) >> 30
CngB0(b0) ==
    LET h == Shr(b0, 15)
        l == b0 % 32768
    IN  Shr(h * 5958 + Shr(l * 5958 + 536870912, 15), 15)

\* X * 2979LL >> 15
CngMul2979(X) == Shr(X, 15) * 2979 + Shr((X % 32768) * 2979, 15)

RECURSIVE SumSquares(_, _, _)
SumSquares(tmp, lo, hi) ==
    IF lo = hi THEN tmp[lo] * tmp[lo]
    ELSE LET m == (lo + hi) \div 2
             l == SumSquares(tmp, lo, m)
         IN  IF l = l THEN l + SumSquares(tmp, m + 1, hi) ELSE l

RECURSIVE CngCorr(_, _, _, _)
CngCorr(tmp, pos, signs, j) ==
    IF j > 11 THEN 0 ELSE tmp[pos[j] + 1] * signs[j] + CngCorr(tmp, pos, signs, j + 1)

\* buf with the samples v stored from the 0-based index base on
StoreAt(buf, base, v) ==
    SubSeq(buf, 1, base) \o v \o SubSeq(buf, base + Len(v) + 1, Len(buf))

\* x << k for k >= 0, x >> -k for k < 0
ShlSigned(x, k) == IF k < 0 THEN Shr(x, -k) ELSE Shl(x, k)

\* Lines 1126-1178 on the two subframes at vb of p->audio, after
\* gen_acb_excitation: the gain x of the pulses, the pulses added, and the
\* copy that serves as history
CngPulsed(aud, vb, shift, cur_gain, pos, signs) ==
    LET Root(b0, delta) ==
            IF delta <= 0 THEN -b0
            ELSE IF FFABS(square_root(delta) + b0) < FFABS(square_root(delta) - b0)
            THEN -(square_root(delta) + b0)
            ELSE square_root(delta) - b0
        X(sum, b0) ==
            av_clip(ShlSigned(Root(b0, b0 * b0 * 2
                                       - CngMul2979(ClipShl(sum, 1)
                                           - ShlSigned(cur_gain * Shr(cur_gain * SUBFRAME_LEN, 5),
                                                       -(shift * 2 + 3)))),
                              shift + 1),
                    -10000, 10000)
        Gain(tmp) == X(SumSquares(tmp, 1, 2 * SUBFRAME_LEN),
                       CngB0(CngCorr(tmp, pos, signs, 1)))
        Copied(aud3) ==
            Force([k \in 1..Len(aud3) |->
                IF k > vb + PITCH_MAX /\ k <= vb + PITCH_MAX + 2 * SUBFRAME_LEN
                THEN aud3[k - PITCH_MAX] ELSE aud3[k]])
    IN  Copied(CngAddPulses(aud, vb, pos, signs,
                            Gain(Force([j \in 1..(2 * SUBFRAME_LEN) |->
                                     ShlSigned(aud[vb + j], -shift)])),
                            1))

\* One pass of the excitation loop "for (i = 0; i < SUBFRAMES; i += 2)":
\* aud is p->audio, vb the index vector_ptr refers to
CngPair(aud, vb, pitch_lag, sf0, sf1, cur_rate, cur_gain, pos, signs) ==
    LET InPlace(a, base, subfrm) ==
            StoreAt(a, base, gen_acb_excitation(a, base, pitch_lag, subfrm, cur_rate))
        Shift(t) == IF t = 0 THEN 0 ELSE FFMAX(-10 + av_log2(FFMIN(t, 32767)), -2)
        Shifted(aud2) ==
            IF aud2 # aud2 THEN aud2
            ELSE CngPulsed(aud2, vb, Shift(MaxAbs(aud2, vb + 1, vb + 2 * SUBFRAME_LEN)),
                           cur_gain, pos, signs)
    IN  Shifted(InPlace(InPlace(aud, vb, sf0), vb + SUBFRAME_LEN, sf1))

\* The stores of generate_noise: lines 1071-1076, and 1182-1183 on p->audio
\* as the excitation loop left it
NoiseStored(p, pitch_lag, subframe, seed, aud) ==
    [p EXCEPT !.pitch_lag = pitch_lag, !.subframe = subframe,
              !.cng_random_seed = seed, !.audio = aud,
              !.prev_excitation = SubSeq(aud, LPC_ORDER + FRAME_LEN + 1,
                                         LPC_ORDER + FRAME_LEN + PITCH_MAX)]

\* generate_noise: the context as the function leaves it
generate_noise(p) ==
    LET s == CngStates(p.cng_random_seed, 30)
        pitch_lag == <<CngValue(s[1], 21) + 123, CngValue(s[2], 19) + 123>>
        subframe == [i \in 0..(SUBFRAMES - 1) |->
                        [p.subframe[i] EXCEPT !.ad_cb_gain = CngValue(s[3 + i], 50) + 1,
                                              !.ad_cb_lag = cng_adaptive_cb_lag(i)]]
        ta == CngValue(s[7], 8192)
        tb == CngValue(s[8], 8192)
        pos0 == CngPairPositions(SubSeq(s, 9, 19), CngOff(ta))
        pos1 == CngPairPositions(SubSeq(s, 20, 30), CngOff(tb))
    IN  IF p # p \/ s # s \/ pos0 # pos0 \/ pos1 # pos1 THEN p
        ELSE NoiseStored(p, pitch_lag, subframe, s[30],
            CngPair(CngPair(StoreAt(p.audio, LPC_ORDER, p.prev_excitation),
                            LPC_ORDER, pitch_lag[1], subframe[0], subframe[1],
                            p.cur_rate, p.cur_gain, pos0, CngSigns(Shr(ta, 2))),
                    LPC_ORDER + 2 * SUBFRAME_LEN, pitch_lag[2], subframe[2], subframe[3],
                    p.cur_rate, p.cur_gain, pos1, CngSigns(Shr(tb, 2))))

\* ------------------------------------------------------------ frame driver
\* The state of a call in progress is a record w:
\*   p                the context
\*   bad_frame        the local bad_frame
\*   lpc              the local lpc, lpc[s + 1] for subframe s
\*   from_excitation  whether the local pointer audio refers to
\*                    p->excitation + PITCH_MAX - LPC_ORDER (line 1283) and
\*                    not to p->audio (line 1201)
\*   out              the samples of frame->data[0]
\*   head             p->excitation[0 .. PITCH_MAX - 1] after line 1241
\*   extent           the number of samples line 1297 clears
\* BadFrameType without the test of past_frame_type
BadFrameType_AlwaysActive(past_frame_type) == ACTIVE_FRAME

\* The frame type a packet that failed to unpack is given (lines 1213-1217)
BadFrameType(past_frame_type) ==
    IF past_frame_type = ACTIVE_FRAME THEN ACTIVE_FRAME ELSE UNTRANSMITTED_FRAME

\* ErasedFrames without the reset on a good frame
ErasedFrames_NoReset(erased_frames, bad_frame) ==
    IF ~bad_frame THEN erased_frames
    ELSE IF erased_frames # 3 THEN erased_frames + 1
    ELSE erased_frames

\* The erasure counter update of an active frame (lines 1229-1232)
ErasedFrames(erased_frames, bad_frame) ==
    IF ~bad_frame THEN 0
    ELSE IF erased_frames # 3 THEN erased_frames + 1
    ELSE erased_frames

\* memcpy(p->excitation, p->prev_excitation, PITCH_MAX) (line 1241)
LoadExcitation(excitation, prev_excitation) ==
    prev_excitation \o SubSeq(excitation, PITCH_MAX + 1, Len(excitation))

\* SaveExcitation with the offset of line 1307 (FRAME_LEN - PITCH_MAX)
SaveExcitation_Early(excitation) == SubSeq(excitation, FRAME_LEN - PITCH_MAX + 1, FRAME_LEN)

\* memcpy(p->prev_excitation, p->excitation + FRAME_LEN, PITCH_MAX) (line 1287)
SaveExcitation(excitation) == SubSeq(excitation, FRAME_LEN + 1, FRAME_LEN + PITCH_MAX)

\* The excitation loop "for (i = 0; i < SUBFRAMES; i++)" from subframe i on
RECURSIVE TotalExcitation(_, _, _)
TotalExcitation(p, exc, i) ==
    IF i = SUBFRAMES \/ exc # exc THEN exc
    ELSE
        LET vb == PITCH_MAX + SUBFRAME_LEN * i
            fcb == gen_fcb_excitation(SubSeq(exc, vb + SUBFRAME_LEN + 1, vb + SUBFRAME_LEN + 4),
                                      p.subframe[i], p.cur_rate,
                                      p.pitch_lag[(i \div 2) + 1], i)
            exc1 == Force([k \in 1..Len(exc) |->
                        IF k > vb /\ k <= vb + SUBFRAME_LEN + 4 THEN fcb[k - vb] ELSE exc[k]])
            acb == gen_acb_excitation(exc1, SUBFRAME_LEN * i, p.pitch_lag[(i \div 2) + 1],
                                      p.subframe[i], p.cur_rate)
            exc2 == Force([k \in 1..Len(exc) |->
                        IF k > vb /\ k <= vb + SUBFRAME_LEN
                        THEN av_clip_int16(av_clip_int16(Shl(exc1[k], 1)) + acb[k - vb])
                        ELSE exc1[k]])
        IN  TotalExcitation(p, exc2, i + 1)

\* Lines 1265-1288 of the branch "if (!p->erased_frames)", c the result of
\* comp_interp_index
GoodFiltered(w, c) ==
    IF c # c THEN w ELSE
    [w EXCEPT !.p = [c.p EXCEPT !.interp_index = c.index,
                                !.sid_gain = c.exc_eng,
                                !.cur_gain = c.scale,
                                !.audio = IF c.p.postfilter # 0
                                          THEN StoreAt(@, LPC_ORDER,
                                                       PitchPostfilter(@, c.p.excitation,
                                                                       c.p.pitch_lag,
                                                                       c.p.cur_rate))
                                          ELSE @,
                                !.prev_excitation = SaveExcitation(c.p.excitation)],
              !.from_excitation = (c.p.postfilter = 0)]

\* The branch "if (!p->erased_frames)" of an active frame (lines 1243-1288)
GoodFrame(w) ==
    GoodFiltered(w,
        comp_interp_index(
            [w.p EXCEPT !.interp_gain = fixed_cb_gain(Shr(w.p.subframe[2].amp_index
                                                        + w.p.subframe[3].amp_index, 1)),
                        !.excitation = TotalExcitation(w.p, w.p.excitation, 0)],
            w.p.pitch_lag[2]))

\* ErasedFrame without the attenuation of line 1290
ErasedFrame_NoAttenuation(w) ==
    LET gain == w.p.interp_gain
        Regenerated(ri) ==
            [w EXCEPT !.p = [w.p EXCEPT !.interp_gain = gain,
                                        !.excitation = ri.buf,
                                        !.audio = StoreAt(@, LPC_ORDER, ri.out),
                                        !.random_seed = ri.rseed,
                                        !.prev_excitation =
                                            SubSeq(ri.out, FRAME_LEN - PITCH_MAX + 1,
                                                   FRAME_LEN)]]
    IN  IF w.p.erased_frames = 3
        THEN [w EXCEPT !.p = [w.p EXCEPT !.interp_gain = gain,
                                         !.excitation = Zeros(FRAME_LEN + PITCH_MAX)
                                             \o SubSeq(@, FRAME_LEN + PITCH_MAX + 1, Len(@)),
                                         !.prev_excitation = Zeros(PITCH_MAX)],
                       !.out = Zeros(FRAME_LEN),
                       !.extent = FRAME_LEN + LPC_ORDER]
        ELSE Regenerated(residual_interp(w.p.excitation, w.p.interp_index, gain,
                                         w.p.random_seed))

\* The branch of an erased active frame (lines 1289-1310)
ErasedFrame(w) ==
    LET gain == Shr(w.p.interp_gain * 3 + 2, 2)
        Regenerated(ri) ==
            [w EXCEPT !.p = [w.p EXCEPT !.interp_gain = gain,
                                        !.excitation = ri.buf,
                                        !.audio = StoreAt(@, LPC_ORDER, ri.out),
                                        !.random_seed = ri.rseed,
                                        !.prev_excitation =
                                            SubSeq(ri.out, FRAME_LEN - PITCH_MAX + 1,
                                                   FRAME_LEN)]]
    IN  IF w.p.erased_frames = 3
        THEN [w EXCEPT !.p = [w.p EXCEPT !.interp_gain = gain,
                                         !.excitation = Zeros(FRAME_LEN + PITCH_MAX)
                                             \o SubSeq(@, FRAME_LEN + PITCH_MAX + 1, Len(@)),
                                         !.prev_excitation = Zeros(PITCH_MAX)],
                       !.out = Zeros(FRAME_LEN),
                       !.extent = FRAME_LEN + LPC_ORDER]
        ELSE Regenerated(residual_interp(w.p.excitation, w.p.interp_index, gain,
                                         w.p.random_seed))

\* ActiveBranch without line 1311
ActiveBranch_NoSeedReset(w) ==
    [(IF w.p.erased_frames = 0 THEN GoodFrame(w) ELSE ErasedFrame(w))
        EXCEPT !.head = SubSeq(w.p.excitation, 1, PITCH_MAX)]

\* Lines 1243-1311: the excitation of an active frame, on the context as
\* lines 1229-1242 left it
ActiveBranch(w) ==
    IF w # w THEN w ELSE
    [(IF w.p.erased_frames = 0 THEN GoodFrame(w) ELSE ErasedFrame(w))
        EXCEPT !.p.cng_random_seed = CNG_RANDOM_SEED,
               !.head = SubSeq(w.p.excitation, 1, PITCH_MAX)]

\* The branch "if (p->cur_frame_type == ACTIVE_FRAME)" (lines 1228-1311)
ActiveFrame(w) ==
    LET Loaded(q) ==
            [w EXCEPT !.p = [w.p EXCEPT !.erased_frames = ErasedFrames(@, w.bad_frame),
                                        !.lsp_index = q.lsp_index,
                                        !.prev_lsp = q.cur_lsp,
                                        !.excitation = LoadExcitation(@, w.p.prev_excitation)],
                      !.lpc = lsp_interpolate(q.cur_lsp, w.p.prev_lsp)]
    IN  ActiveBranch(Loaded(inverse_quant(w.p.prev_lsp, w.p.lsp_index, w.bad_frame)))

\* NoiseFrame with cur_gain set to sid_gain whatever the previous frame was
NoiseFrame_NoSmoothing(w) ==
    LET Sid(q) ==
            [w.p EXCEPT !.sid_gain = sid_gain_to_lsp_index(w.p.subframe[0].amp_index),
                        !.sid_lsp = q.cur_lsp,
                        !.lsp_index = q.lsp_index]
        Gained(p1) == [p1 EXCEPT !.cur_gain = p1.sid_gain]
        Interpolated(p3) ==
            IF p3 # p3 THEN w ELSE
            [w EXCEPT !.p = [p3 EXCEPT !.prev_lsp = p3.sid_lsp],
                      !.lpc = lsp_interpolate(p3.sid_lsp, w.p.prev_lsp)]
    IN  Interpolated(generate_noise(Gained(
            IF w.p.cur_frame_type = SID_FRAME
            THEN Sid(inverse_quant(w.p.prev_lsp, w.p.lsp_index, FALSE))
            ELSE IF w.p.past_frame_type = ACTIVE_FRAME
            THEN [w.p EXCEPT !.sid_gain = estimate_sid_gain(w.p)]
            ELSE w.p)))

\* The branch of a SID or untransmitted frame (lines 1313-1327)
NoiseFrame(w) ==
    LET Sid(q) ==
            [w.p EXCEPT !.sid_gain = sid_gain_to_lsp_index(w.p.subframe[0].amp_index),
                        !.sid_lsp = q.cur_lsp,
                        !.lsp_index = q.lsp_index]
        Gained(p1) ==
            [p1 EXCEPT !.cur_gain = IF w.p.past_frame_type = ACTIVE_FRAME THEN p1.sid_gain
                                    ELSE Shr(p1.cur_gain * 7 + p1.sid_gain, 3)]
        Interpolated(p3) ==
            IF p3 # p3 THEN w ELSE
            [w EXCEPT !.p = [p3 EXCEPT !.prev_lsp = p3.sid_lsp],
                      !.lpc = lsp_interpolate(p3.sid_lsp, w.p.prev_lsp)]
    IN  Interpolated(generate_noise(Gained(
            IF w.p.cur_frame_type = SID_FRAME
            THEN Sid(inverse_quant(w.p.prev_lsp, w.p.lsp_index, FALSE))
            ELSE IF w.p.past_frame_type = ACTIVE_FRAME
            THEN [w.p EXCEPT !.sid_gain = estimate_sid_gain(w.p)]
            ELSE w.p)))

\* ScaleOutput without the shift
ScaleOutput_NoShift(audio) ==
    Force([i \in 1..FRAME_LEN |-> av_clip_int16(audio[LPC_ORDER + i])])

\* out[i] = av_clip_int16(p->audio[LPC_ORDER + i] << 1) (lines 1342-1343)
ScaleOutput(audio) ==
    Force([i \in 1..FRAME_LEN |-> av_clip_int16(Shl(audio[LPC_ORDER + i], 1))])

\* Lines 1339-1344: the formant postfilter, or the scaling of the output
OutputStage(w) ==
    LET Postfiltered(fp) == [w EXCEPT !.p = fp.p, !.out = fp.dst]
    IN  IF w # w THEN w
        ELSE IF w.p.postfilter # 0
        THEN Postfiltered(formant_postfilter(w.p, w.lpc, w.p.audio))
        ELSE [w EXCEPT !.out = ScaleOutput(w.p.audio)]

\* Lines 1330-1344: synthesis and the output stage
Synthesize(w) ==
    LET Synthesized(synth) ==
            [w EXCEPT !.p = [w.p EXCEPT !.past_frame_type = w.p.cur_frame_type,
                                        !.audio = w.p.synth_mem \o synth
                                            \o SubSeq(@, LPC_ORDER + FRAME_LEN + 1, Len(@)),
                                        !.synth_mem = SubSeq(synth, FRAME_LEN - LPC_ORDER + 1,
                                                             FRAME_LEN)]]
    IN  IF w # w THEN w ELSE
        OutputStage(Synthesized(
            SynthFrame(w.p.synth_mem, w.lpc,
                       IF w.from_excitation THEN w.p.excitation ELSE w.p.audio,
                       IF w.from_excitation THEN PITCH_MAX ELSE LPC_ORDER, 0)))

\* --------------------------------------------------------------- the state
\* p          the G723_1_Context
\* out        the samples of the last frame returned (frame->data[0])
\* got_frame  *got_frame_ptr as the last call left it
\* ret        the value the last call returned
\* ncalls     number of calls made
\* last       what the last call did: the packet, the path taken, and values
\*            the call computed on the way
\* iq         an inverse_quant evaluation: its arguments and its result
\* ev         an evaluation of one of the other functions of the file on
\*            its own: the function (op), its arguments and its result
VARIABLES p, out, got_frame, ret, ncalls, last, iq, ev

vars == <<p, out, got_frame, ret, ncalls, last, iq, ev>>

AVERROR_ENOMEM == -12

ZeroSubframe ==
    [ad_cb_lag |-> 0, ad_cb_gain |-> 0, dirac_train |-> 0, pulse_sign |-> 0,
     grid_index |-> 0, amp_index |-> 0, pulse_pos |-> 0]

\* The zeroed private context after g723_1_decode_init, with the postfilter
\* option as given
g723_1_decode_init(postfilter) ==
    [subframe |-> [i \in 0..(SUBFRAMES - 1) |-> ZeroSubframe],
     cur_frame_type |-> ACTIVE_FRAME,
     past_frame_type |-> SID_FRAME,
     cur_rate |-> RATE_6300,
     lsp_index |-> <<0, 0, 0>>,
     pitch_lag |-> <<0, 0>>,
     erased_frames |-> 0,
     prev_lsp |-> dc_lsp,
     sid_lsp |-> dc_lsp,
     prev_excitation |-> Zeros(PITCH_MAX),
     excitation |-> Zeros(PITCH_MAX + FRAME_LEN + 4),
     synth_mem |-> Zeros(LPC_ORDER),
     fir_mem |-> Zeros(LPC_ORDER),
     iir_mem |-> Zeros(LPC_ORDER),
     random_seed |-> 0,
     cng_random_seed |-> CNG_RANDOM_SEED,
     interp_index |-> 0,
     interp_gain |-> 0,
     sid_gain |-> 0,
     cur_gain |-> 0,
     reflection_coef |-> 0,
     pf_gain |-> 4096,
     postfilter |-> postfilter,
     audio |-> Zeros(FRAME_LEN + LPC_ORDER + PITCH_MAX + 4)]

\* The packets fed to the decoder
PktActive6300 == [size |-> 24, data |-> <<28, 20, 248, 83, 4, 197, 148, 34, 50, 135, 237, 160, 122, 66, 14, 76, 56, 20, 67, 45, 77, 172, 53, 83>>]
PktActive5300 == [size |-> 20, data |-> <<1, 0, 252, 243, 90, 110, 67, 140, 249, 11, 17, 223, 205, 206, 41, 119, 249, 255, 107, 61>>]
PktBad == [size |-> 24, data |-> <<36, 36, 36, 252, 1, 0, 0, 0, 0, 0, 0, 0, 0, 0, 0, 0, 0, 0, 0, 0, 0, 0, 0, 0>>]
PktSid == [size |-> 4, data |-> <<14, 8, 4, 80>>]
PktSidQuiet == [size |-> 4, data |-> <<14, 8, 4, 4>>]
PktUntransmitted == [size |-> 1, data |-> <<3>>]
PktShort == [size |-> 10, data |-> <<28, 20, 248, 83, 4, 197, 148, 34, 50, 135>>]

Packets ==
    {PktActive6300, PktActive5300, PktBad, PktSid, PktSidQuiet, PktUntransmitted, PktShort}

\* The calls made: a packet and the outcome of ff_get_buffer
Calls ==
    {[pkt |-> pkt, alloc_ok |-> TRUE] : pkt \in Packets}
    \cup {[pkt |-> pkt, alloc_ok |-> FALSE] : pkt \in {PktActive5300, PktBad, PktSid}}

\* What is recorded of a call: its inputs (size, dec_mode, alloc_ok), whether
\* unpack_bitstream failed (bad_frame), the branch taken (path), and, where
\* the branch computes them, the head of the working excitation buffer after
\* line 1241 (head), the output of the synthesis filter (synth) and the
\* number of samples of frame->data[0] cleared at line 1297 (extent);
\* erased_before is p->erased_frames on entry, and entry holds the frame
\* type, gains and seeds of the context the call was made with
NoCall ==
    [path |-> "none", size |-> 0, dec_mode |-> 0, alloc_ok |-> TRUE,
     erased_before |-> 0, bad_frame |-> FALSE, head |-> <<>>, synth |-> <<>>,
     extent |-> 0,
     entry |-> [past_frame_type |-> SID_FRAME, sid_gain |-> 0, cur_gain |-> 0,
                interp_gain |-> 0, interp_index |-> 0, random_seed |-> 0,
                cng_random_seed |-> CNG_RANDOM_SEED]]

\* TooSmall skipping only the empty packet
TooSmall_OnlyEmpty(buf_size, dec_mode) == buf_size = 0

\* TooSmall with <= for <
TooSmall_OrEqual(buf_size, dec_mode) == buf_size <= frame_size[dec_mode + 1]

\* if (buf_size < frame_size[dec_mode]) (line 1203)
TooSmall(buf_size, dec_mode) == buf_size < frame_size[dec_mode + 1]

\* GetBufferFailed after the frame type was already saved (line 1330 moved up)
GetBufferFailed_TypeSaved(p1, frame, got) ==
    [p |-> [p1 EXCEPT !.past_frame_type = p1.cur_frame_type], out |-> frame,
     got_frame |-> got, ret |-> AVERROR_ENOMEM]

\* The return at lines 1221-1224 when ff_get_buffer fails: the context is as
\* unpack_bitstream and lines 1212-1218 left it, the frame and *got_frame_ptr
\* are not written
GetBufferFailed(p1, frame, got) ==
    [p |-> p1, out |-> frame, got_frame |-> got, ret |-> AVERROR_ENOMEM]

\* Lines 1212-1348, u the result of unpack_bitstream and info what is
\* recorded of the call so far
DecodeUnpacked(u, frame, got, info, alloc_ok) ==
    LET w == [p |-> IF u.ret < 0
                    THEN [u.p EXCEPT !.cur_frame_type = BadFrameType(u.p.past_frame_type)]
                    ELSE u.p,
              bad_frame |-> u.ret < 0, lpc |-> <<>>, from_excitation |-> FALSE,
              out |-> frame, head |-> <<>>, extent |-> 0]
        Refused(f) ==
            [p |-> f.p, out |-> f.out, got_frame |-> f.got_frame, ret |-> f.ret,
             last |-> [info EXCEPT !.path = "nobuffer", !.bad_frame = u.ret < 0]]
        Emit(s) ==
            [p |-> s.p, out |-> s.out, got_frame |-> 1, ret |-> frame_size[info.dec_mode + 1],
             last |-> [info EXCEPT !.path = IF s.p.cur_frame_type = ACTIVE_FRAME
                                           THEN "active" ELSE "noise",
                                   !.bad_frame = s.bad_frame, !.head = s.head,
                                   !.synth = SubSeq(s.p.audio, LPC_ORDER + 1,
                                                    LPC_ORDER + FRAME_LEN),
                                   !.extent = s.extent]]
    IN  IF u # u THEN u
        ELSE IF ~alloc_ok
        THEN Refused(GetBufferFailed(w.p, frame, got))
        ELSE Emit(Synthesize(IF w.p.cur_frame_type = ACTIVE_FRAME
                             THEN ActiveFrame(w) ELSE NoiseFrame(w)))

\* g723_1_decode_frame: the context, the output frame, *got_frame_ptr and
\* the return value after the call, for the packet pkt and the outcome
\* alloc_ok of ff_get_buffer
g723_1_decode_frame(ctx, frame, got, pkt, alloc_ok) ==
    LET info == [NoCall EXCEPT !.size = pkt.size, !.dec_mode = PacketByte(pkt, 0) % 4,
                               !.alloc_ok = alloc_ok,
                               !.erased_before = ctx.erased_frames,
                               !.entry = [past_frame_type |-> ctx.past_frame_type,
                                          sid_gain |-> ctx.sid_gain,
                                          cur_gain |-> ctx.cur_gain,
                                          interp_gain |-> ctx.interp_gain,
                                          interp_index |-> ctx.interp_index,
                                          random_seed |-> ctx.random_seed,
                                          cng_random_seed |-> ctx.cng_random_seed]]
    IN  IF TooSmall(pkt.size, info.dec_mode)
        THEN [p |-> ctx, out |-> frame, got_frame |-> 0, ret |-> pkt.size,
              last |-> [info EXCEPT !.path = "skipped"]]
        ELSE DecodeUnpacked(unpack_bitstream(ctx, pkt), frame, got, info, alloc_ok)

Apply(r) ==
    /\ p' = r.p
    /\ out' = r.out
    /\ got_frame' = r.got_frame
    /\ ret' = r.ret
    /\ last' = r.last

NoIq == [prev_lsp |-> dc_lsp, lsp_index |-> <<0, 0, 0>>, bad_frame |-> FALSE,
         res |-> inverse_quant(dc_lsp, <<0, 0, 0>>, FALSE)]

Init ==
    /\ \E postfilter \in {0, 1} : p = g723_1_decode_init(postfilter)
    /\ out = <<>>
    /\ got_frame = 0
    /\ ret = 0
    /\ ncalls = 0
    /\ last = NoCall
    /\ iq = NoIq
    /\ ev = [op |-> "none", arg |-> <<>>, res |-> <<>>]

\* One call of the decoder
Decode ==
    /\ ncalls < (IF p.postfilter # 0 THEN MaxCallsPF ELSE MaxCalls)
    /\ ncalls' = ncalls + 1
    /\ \E c \in Calls :
           Apply(g723_1_decode_frame(p, out, got_frame, c.pkt, c.alloc_ok))
    /\ UNCHANGED <<iq, ev>>

Next == Decode

Spec == Init /\ [][Next]_vars

\* ------------------------------------------- inverse_quant on its own
\* The previous LSP vectors inverse_quant is applied to: the initial vector,
\* the same reversed, constant vectors at the ends and in the middle of the
\* int16 range, vectors with every gap at the minimum, and an unordered one
IqPrevLsps ==
    {dc_lsp,
     [i \in 1..LPC_ORDER |-> dc_lsp[LPC_ORDER + 1 - i]],
     [i \in 1..LPC_ORDER |-> 0],
     [i \in 1..LPC_ORDER |-> 32767],
     [i \in 1..LPC_ORDER |-> -32768],
     [i \in 1..LPC_ORDER |-> 384 + 256 * (i - 1)],
     [i \in 1..LPC_ORDER |-> 32256 - 252 * (LPC_ORDER - i)],
     <<3000, 200, 9000, 5000, 15000, 11000, 21000, 17000, 30000, 26000>>}

IqIndices ==
    {<<0, 0, 0>>, <<255, 0, 0>>, <<254, 5, 7>>, <<3, 5, 7>>, <<200, 100, 50>>,
     <<17, 230, 99>>, <<128, 128, 128>>, <<255, 255, 255>>}

\* One evaluation of inverse_quant, on a vector of IqPrevLsps or on the
\* vector the evaluation before returned
InverseQuant ==
    /\ ncalls < MaxIq
    /\ ncalls' = ncalls + 1
    /\ \E prev_lsp \in IqPrevLsps \cup {iq.res.cur_lsp}, lsp_index \in IqIndices,
          bad_frame \in BOOLEAN :
           iq' = [prev_lsp |-> prev_lsp, lsp_index |-> lsp_index, bad_frame |-> bad_frame,
                  res |-> inverse_quant(prev_lsp, lsp_index, bad_frame)]
    /\ UNCHANGED <<p, out, got_frame, ret, last, ev>>

NextIQ == InverseQuant

SpecIQ == Init /\ [][NextIQ]_vars

\* ------------------------------------- the other functions on their own
\* An evaluation of op on arg with the result res, the first one made
Evaluated(op, arg, res) ==
    /\ ev.op = "none"
    /\ ev' = [op |-> op, arg |-> arg, res |-> res]
    /\ UNCHANGED <<p, out, got_frame, ret, ncalls, last, iq>>

\* square_root on the values up to MaxSqrtArg, on the values around 2 r^2
\* for r a power of two, one less and one more, and on the largest int
SquareRoot ==
    \E val \in (0..MaxSqrtArg)
               \cup {2 * (r * r) + d : r \in {2 ^ k + e : k \in 4..14, e \in -1..1},
                                      d \in -1..1}
               \cup {INT32_MAX - d : d \in 0..2} :
        Evaluated("square_root", val, square_root(val))

\* The raw pitch lags and combined gains of the packets unpack_bitstream is
\* applied to: the lags around the forbidden codes and around SUBFRAME_LEN -
\* 2 - PITCH_MIN, the gains around 85 * GAIN_LEVELS and 170 * GAIN_LEVELS
\* with bit 11 clear and set
UnpackLags == {39, 40, 123, 124}

UnpackGainCodes == {0, 23, 2039, 2040, 2047, 2048, 2071, 4079, 4080, 4087, 4088, 4095}

\* unpack_bitstream on an active packet of either rate: one subframe j has
\* the gain g, the others h
Unpack ==
    \E info_bits \in {0, 1}, lag0 \in UnpackLags, lag1 \in UnpackLags,
       j \in 0..(SUBFRAMES - 1), g \in UnpackGainCodes, h \in {0, 2071} :
        LET arg == [info_bits |-> info_bits, lag |-> <<lag0, lag1>>,
                    gain |-> [i \in 0..(SUBFRAMES - 1) |-> IF i = j THEN g ELSE h]]
            u == unpack_bitstream(p, ActivePacket(info_bits, arg.lag, arg.gain))
        IN  Evaluated("unpack_bitstream", arg,
                      [ret |-> u.ret, cur_rate |-> u.p.cur_rate,
                       cur_frame_type |-> u.p.cur_frame_type,
                       pitch_lag |-> u.p.pitch_lag, subframe |-> u.p.subframe])

\* A buffer of the size of p->audio, zero but for a pulse at base and one at
\* the lag t from it in direction dir
ImpulsePair(base, dir, t) ==
    [k \in 1..(FRAME_LEN + LPC_ORDER + PITCH_MAX + 4) |->
        IF k = base + 1 \/ k = base + dir * t + 1 THEN 100 ELSE 0]

\* autocorr_max as comp_ppf_coeff calls it (lines 715-718), forward or
\* backward, for a subframe offset and a decoded pitch lag, on a buffer whose
\* only correlation is at the first or the last lag of the search; without
\* lags to search the buffer is zero
AutocorrMax ==
    \E j \in 0..(SUBFRAMES - 1), pitch_lag \in PITCH_MIN..(PITCH_MAX - 4), dir \in {1, -1},
       last_lag \in BOOLEAN :
        LET offset == PITCH_MAX + SUBFRAME_LEN * j
            lags == AutocorrLags(offset, pitch_lag, SUBFRAME_LEN, dir)
            target == IF lags = {} THEN 0
                      ELSE IF last_lag THEN CHOOSE i \in lags : \A m \in lags : m <= i
                      ELSE CHOOSE i \in lags : \A m \in lags : m >= i
        IN  Evaluated("autocorr_max",
                      [offset |-> offset, pitch_lag |-> pitch_lag, dir |-> dir,
                       target |-> target],
                      [lags |-> lags,
                       lag |-> autocorr_max(ImpulsePair(LPC_ORDER + offset, dir, target),
                                            LPC_ORDER + offset, offset, 0, pitch_lag,
                                            SUBFRAME_LEN, dir).lag])

\* Excitation samples around the values where the shift by 15 rounds
\* differently
PpfSamples ==
    (-3..3) \cup {s * (v + d) : s \in {-1, 1}, v \in {8192, 16384, 32767}, d \in -2..0}
            \cup {16385, 16386, -32768}

\* The pitch postfilter of the frame driver (lines 1269-1281) on a frame
\* whose p->audio holds a single pulse at the start of subframe j, so that
\* no lag correlates, and whose excitation holds the sample e there
PostfilterUncorrelated ==
    \E e \in PpfSamples, j \in 0..(SUBFRAMES - 1), cur_rate \in {RATE_6300, RATE_5300} :
        LET at == PITCH_MAX + SUBFRAME_LEN * j + 1
            audio == [k \in 1..(FRAME_LEN + LPC_ORDER + PITCH_MAX + 4) |->
                         IF k = LPC_ORDER + at THEN 1000 ELSE 0]
            excitation == [k \in 1..(FRAME_LEN + PITCH_MAX) |-> IF k = at THEN e ELSE 0]
        IN  Evaluated("pitch_postfilter",
                      [e |-> e, subframe |-> j, cur_rate |-> cur_rate],
                      [ppf |-> comp_ppf_coeff(audio, PITCH_MAX + SUBFRAME_LEN * j,
                                              PITCH_MIN + 42, cur_rate),
                       sample |-> PitchPostfilter(audio, excitation,
                                                  <<PITCH_MIN + 42, PITCH_MIN + 42>>,
                                                  cur_rate)[SUBFRAME_LEN * j + 1]])

\* Values of cng_random_seed: the low ones, the high ones, the reset value
\* and a stride through the 16-bit range
CngSeeds ==
    (0..63) \cup {65535 - d : d \in 0..15} \cup {CNG_RANDOM_SEED}
            \cup {(k * 1021) % 65536 : k \in 0..255}

\* cng_rand(&seed, base) for the bases generate_noise uses, and the offsets
\* and pulse positions generate_noise draws for its two subframe pairs when
\* entered with the seed (lines 1080-1101)
CngRand ==
    \E seed \in CngSeeds, base \in {1, 19, 21, 25, 30, 50, 8192} :
        LET s == CngStates(seed, 30)
            off == <<CngOff(CngValue(s[7], 8192)), CngOff(CngValue(s[8], 8192))>>
        IN  Evaluated("cng_rand",
                      [seed |-> seed, base |-> base],
                      [state |-> CngNext(seed),
                       value |-> CngValue(CngNext(seed), base),
                       off |-> off,
                       pos |-> <<CngPairPositions(SubSeq(s, 9, 19), off[1]),
                                 CngPairPositions(SubSeq(s, 20, 30), off[2])>>])

\* pulse_pos values of the 5300 bps branch: each 3-bit field at its
\* extremes, alone and together
FcbPulsePos == {0, 7, 56, 448, 3584, 3591, 2925, 4095}

\* The excitation of the subframes i .. 3 built again by the excitation loop
\* from a buffer that holds total up to the end of subframe i - 1 and
\* nothing behind it
FcbRebuilt(ctx, total, i) ==
    IF total # total THEN <<>>
    ELSE SubSeq(TotalExcitation(ctx,
                                Force([k \in 1..(PITCH_MAX + FRAME_LEN + 4) |->
                                          IF k > PITCH_MAX + SUBFRAME_LEN * i THEN 0
                                          ELSE total[k]]),
                                i),
                PITCH_MAX + SUBFRAME_LEN * i + 1, PITCH_MAX + FRAME_LEN)

\* What is kept of the excitation loop of a frame: cells are the offsets
\* at which vector, the result of gen_fcb_excitation, holds a pulse, total
\* is the frame's excitation and rebuilt[i] that of FcbRebuilt
FcbEvaluated(arg, ctx, vector, total) ==
    IF ev.op # "none" \/ total # total \/ vector # vector THEN FALSE
    ELSE Evaluated("gen_fcb_excitation", arg,
                   [cells |-> {k \in 0..(SUBFRAME_LEN + 3) : vector[k + 1] # 0},
                    total |-> SubSeq(total, PITCH_MAX + 1, PITCH_MAX + FRAME_LEN),
                    rebuilt |-> <<FcbRebuilt(ctx, total, 1), FcbRebuilt(ctx, total, 2),
                                  FcbRebuilt(ctx, total, 3)>>])

\* The excitation loop of a good 5300 bps frame (lines 1249-1261) on a
\* working buffer that still holds older samples everywhere, all four
\* subframes with the same pulse positions, grid and signs, and
\* gen_fcb_excitation on its own without harmonic enhancement
FcbExcitation5300 ==
    \E pulse_pos \in FcbPulsePos, grid_index \in {0, 1}, pulse_sign \in {0, 10, 15},
       pitch_lag \in {PITCH_MIN + 2, SUBFRAME_LEN, 100} :
        LET subfrm(i) == [ad_cb_lag |-> 1, ad_cb_gain |-> 1 + i, dirac_train |-> 0,
                          pulse_sign |-> pulse_sign, grid_index |-> grid_index,
                          amp_index |-> 20 + i, pulse_pos |-> pulse_pos]
            ctx == [p EXCEPT !.cur_rate = RATE_5300,
                             !.pitch_lag = <<pitch_lag, pitch_lag>>,
                             !.subframe = [i \in 0..(SUBFRAMES - 1) |-> subfrm(i)]]
        IN  FcbEvaluated([pulse_pos |-> pulse_pos, grid_index |-> grid_index,
                          pulse_sign |-> pulse_sign, pitch_lag |-> pitch_lag],
                         ctx,
                         gen_fcb_excitation(Zeros(4), subfrm(0), RATE_5300, SUBFRAME_LEN, 0),
                         TotalExcitation(ctx,
                                         Force([k \in 1..(PITCH_MAX + FRAME_LEN + 4) |->
                                                   ((k * 37) % 201) - 100]),
                                         0))

NextFn ==
    \/ SquareRoot \/ Unpack \/ AutocorrMax \/ PostfilterUncorrelated \/ CngRand
    \/ FcbExcitation5300

SpecFn == Init /\ [][NextFn]_vars

\* ------------------------------------------------------------------ claims
\* The last call decoded a frame (it was neither skipped nor left without
\* an output buffer)
Emitted(l) == l.path \in {"active", "noise"}

\* The packet of the call recorded in l was at least frame_size[dec_mode] long
SizeOk(l) == l.size >= frame_size[l.dec_mode + 1]

C2_ThirdErasureSilent ==
    (last.path = "active" /\ last.bad_frame /\ last.erased_before = 2)
        => /\ \A i \in 1..FRAME_LEN : out[i] = 0
           /\ p.prev_excitation = Zeros(PITCH_MAX)

\* C3: a packet of sufficient size that fails to unpack is decoded as an
\* erased active frame (erased_frames incremented unless it is 3) exactly
\* when past_frame_type is ACTIVE_FRAME; otherwise it is decoded as an
\* untransmitted frame, erased_frames is unchanged and past_frame_type
\* becomes UNTRANSMITTED_FRAME.  past_frame_type is the type under which the
\* last emitted frame was processed.
C3_Step ==
    /\ (Emitted(last') => p'.past_frame_type = p'.cur_frame_type)
    /\ (Emitted(last') /\ last'.bad_frame =>
           IF p.past_frame_type = ACTIVE_FRAME
           THEN /\ last'.path = "active"
                /\ p'.erased_frames = (IF p.erased_frames = 3 THEN 3
                                       ELSE p.erased_frames + 1)
                /\ p'.past_frame_type = ACTIVE_FRAME
           ELSE /\ last'.path = "noise"
                /\ p'.erased_frames = p.erased_frames
                /\ p'.past_frame_type = UNTRANSMITTED_FRAME)

C3_BadFrameRouting == [][C3_Step]_vars

\* C3 witness: a bad packet after a noise frame that itself followed an
\* erasure, decoded as untransmitted with the counter left at 1
C3_Witness ==
    last.path = "noise" /\ last.bad_frame /\ p.erased_frames = 1
    /\ p.past_frame_type = UNTRANSMITTED_FRAME

\* C4: a call whose packet is shorter than frame_size[packet[0] & 3] sets
\* got_frame to 0, returns the packet size and leaves every field of the
\* context as it was.
C4_Step ==
    ~SizeOk(last') =>
        /\ got_frame' = 0
        /\ ret' = last'.size
        /\ p' = p
        /\ out' = out

C4_ShortPacketSkipped == [][C4_Step]_vars

\* C4 witness: a short packet arrived in the middle of an erasure
C4_Witness ==
    ~SizeOk(last) /\ last.size > 0 /\ got_frame = 0 /\ ret = last.size
    /\ p.erased_frames = 2 /\ p.past_frame_type = ACTIVE_FRAME

\* The state carried from frame to frame
CrossFrame(q) ==
    <<q.past_frame_type, q.erased_frames, q.prev_lsp, q.sid_lsp, q.prev_excitation,
      q.synth_mem, q.fir_mem, q.iir_mem, q.interp_gain, q.interp_index, q.sid_gain,
      q.cur_gain, q.reflection_coef, q.pf_gain, q.random_seed, q.cng_random_seed>>

\* C5: when ff_get_buffer fails the call returns its error, writes neither
\* the frame nor got_frame, and the cross-frame state is as before the call.
C5_Step ==
    SizeOk(last') /\ ~last'.alloc_ok =>
        /\ ret' = AVERROR_ENOMEM
        /\ out' = out
        /\ got_frame' = got_frame
        /\ CrossFrame(p') = CrossFrame(p)

C5_AllocFailureKeepsState == [][C5_Step]_vars

\* C5 witness: the buffer was refused for a bad packet during an erasure;
\* the packet's frame type was overwritten, the cross-frame type was not
C5_Witness ==
    last.path = "nobuffer" /\ last.bad_frame /\ ret = AVERROR_ENOMEM
    /\ p.erased_frames = 1 /\ p.past_frame_type = ACTIVE_FRAME
    /\ p.lsp_index # <<0, 0, 0>>

\* C6: with the postfilter off every emitted sample is
\* av_clip_int16(synth[i] << 1) of the frame's synthesis output, and the call
\* leaves fir_mem, iir_mem, pf_gain and reflection_coef unchanged.
C6_Step ==
    p.postfilter = 0 /\ Emitted(last') =>
        /\ Len(last'.synth) = FRAME_LEN
        /\ \A i \in 1..FRAME_LEN : out'[i] = av_clip_int16(last'.synth[i] * 2)
        /\ DOMAIN out' = 1..FRAME_LEN
        /\ p'.fir_mem = p.fir_mem
        /\ p'.iir_mem = p.iir_mem
        /\ p'.pf_gain = p.pf_gain
        /\ p'.reflection_coef = p.reflection_coef

C6_PostfilterOff == [][C6_Step]_vars

\* C6 witness: an erased frame without postfilter whose output is not
\* silent and clips
C6_Witness ==
    p.postfilter = 0 /\ last.path = "active" /\ last.bad_frame
    /\ \E i \in 1..FRAME_LEN : out[i] # 0 /\ out[i] # last.synth[i]

\* C7: a call leaves got_frame at 0 or 1; when the packet has at least
\* frame_size[dec_mode] bytes and ff_get_buffer succeeds it emits one frame
\* of 240 samples (got_frame = 1) and returns frame_size[dec_mode], whatever
\* the frame type and whether or not unpacking failed.
C7_OneFrame ==
    /\ got_frame \in {0, 1}
    /\ (last.path # "none" /\ SizeOk(last) /\ last.alloc_ok =>
           /\ got_frame = 1
           /\ DOMAIN out = 1..FRAME_LEN
           /\ ret = frame_size[last.dec_mode + 1])
    /\ (last.path # "none" /\ ~SizeOk(last) => got_frame = 0)

\* C7 witness: a 4-byte SID packet decoded, 4 bytes consumed
C7_Witness ==
    last.path = "noise" /\ ~last.bad_frame /\ last.size = 4 /\ got_frame = 1
    /\ ret = 4 /\ p.cur_frame_type = SID_FRAME

\* C8: the vector inverse_quant returns satisfies cur_lsp[j-1] + min_dist <=
\* cur_lsp[j] + 4 for all j in 1..9 (min_dist 0x100 for a good frame, 0x200
\* for a bad one) or equals prev_lsp; the stability loop makes at most 10
\* passes.
C8_StableOrPrevious ==
    LET md == IF iq.bad_frame THEN 512 ELSE 256
        cur == iq.res.cur_lsp
    IN  /\ \/ \A j \in 1..(LPC_ORDER - 1) : cur[j] + md <= cur[j + 1] + 4
           \/ cur = iq.prev_lsp
        /\ iq.res.passes \in 1..10

\* C8 witness: ten passes did not separate the vector, which is not ordered,
\* and the previous vector was returned
C8_Witness ==
    /\ ~iq.res.stable /\ iq.res.passes = 10
    /\ iq.res.cur_lsp = iq.prev_lsp
    /\ \E j \in 1..(LPC_ORDER - 1) : iq.prev_lsp[j] > iq.prev_lsp[j + 1]

C10_Step ==
    /\ (last'.path = "active" /\ ~last'.bad_frame =>
           p'.prev_excitation
               = SubSeq(p'.excitation, FRAME_LEN + 1, FRAME_LEN + PITCH_MAX))
    /\ (last'.path = "active" => last'.head = p.prev_excitation)
    /\ (last'.path = "active" /\ last.path = "active" /\ ~last.bad_frame =>
           last'.head = SubSeq(p.excitation, FRAME_LEN + 1, FRAME_LEN + PITCH_MAX))

C10_ExcitationContinuity == [][C10_Step]_vars

\* C10 witness: two good active frames in a row with the postfilter on; the
\* second started from the non-zero tail the first saved
C10_Witness ==
    /\ p.postfilter # 0 /\ last.path = "active" /\ ~last.bad_frame
    /\ \E i \in 1..PITCH_MAX : last.head[i] # 0
    /\ p.prev_excitation = SubSeq(p.excitation, FRAME_LEN + 1, FRAME_LEN + PITCH_MAX)
    /\ p.prev_excitation # last.head

\* C11: after every frame decoded on the active path (good, erased or muted)
\* cng_random_seed is CNG_RANDOM_SEED; a call that decodes no frame leaves it
\* as it was, so that only SID and untransmitted frames give it another
\* value; and in every reachable state it is in 0..0xFFFF.
C11_CngSeed ==
    /\ p.cng_random_seed \in 0..65535
    /\ (last.path = "active" => p.cng_random_seed = CNG_RANDOM_SEED)
    /\ (~Emitted(last) => p.cng_random_seed = last.entry.cng_random_seed)
    /\ (p.cng_random_seed \notin {last.entry.cng_random_seed, CNG_RANDOM_SEED}
           => last.path = "noise")

\* C11 witness: an active frame decoded right after noise frames had moved
\* the seed away from CNG_RANDOM_SEED
C11_Witness ==
    /\ last.path = "active"
    /\ last.entry.cng_random_seed # CNG_RANDOM_SEED
    /\ last.entry.past_frame_type # ACTIVE_FRAME
    /\ p.cng_random_seed = CNG_RANDOM_SEED

\* C12: on every SID or untransmitted frame cur_gain becomes sid_gain if the
\* frame before was active and (7 * cur_gain + sid_gain) >> 3 otherwise; an
\* untransmitted frame that does not follow an active one leaves sid_gain as
\* it was; and the new cur_gain lies between the old cur_gain and sid_gain.
C12_GainSmoothing ==
    last.path = "noise" =>
        /\ p.cur_gain = (IF last.entry.past_frame_type = ACTIVE_FRAME THEN p.sid_gain
                         ELSE (7 * last.entry.cur_gain + p.sid_gain) \div 8)
        /\ (p.cur_frame_type = UNTRANSMITTED_FRAME
             /\ last.entry.past_frame_type # ACTIVE_FRAME
               => p.sid_gain = last.entry.sid_gain)
        /\ (last.entry.past_frame_type # ACTIVE_FRAME =>
               \/ last.entry.cur_gain <= p.cur_gain /\ p.cur_gain <= p.sid_gain
               \/ last.entry.cur_gain >= p.cur_gain /\ p.cur_gain >= p.sid_gain)

\* C12 witness: an untransmitted frame after a noise frame, sid_gain as
\* before and below cur_gain, which moved down towards it without reaching it
C12_Witness ==
    /\ last.path = "noise"
    /\ p.cur_frame_type = UNTRANSMITTED_FRAME
    /\ last.entry.past_frame_type # ACTIVE_FRAME
    /\ p.sid_gain = last.entry.sid_gain
    /\ p.sid_gain < p.cur_gain
    /\ p.cur_gain < last.entry.cur_gain

\* The last call concealed an erased frame as unvoiced: residual_interp ran
\* with lag 0 (lines 1303-1304, 839-845)
Unvoiced(l) ==
    /\ l.path = "active" /\ l.bad_frame
    /\ l.erased_before < 2
    /\ l.entry.interp_index = 0

\* C13: over erased unvoiced concealment frames every update
\* random_seed * 521 + 259 and every product interp_gain * random_seed stays
\* within the signed 32-bit range.
C13_NoOverflow ==
    Unvoiced(last) => UnvoicedFits(p.interp_gain, last.entry.random_seed)

C15_Limit(e, i) ==
    IF e.arg.info_bits = 0 /\ e.arg.lag[(i \div 2) + 1] + PITCH_MIN < 58 THEN 85 ELSE 170

C15_Temp(e, i) == IF C15_Limit(e, i) = 85 THEN e.arg.gain[i] % 2048 ELSE e.arg.gain[i]

\* C15: on an active packet unpack_bitstream fails exactly when a raw pitch
\* lag exceeds 123 or some subframe's temp / 24 is not below its limit (85 at
\* rate 6300 with a pitch lag below 58, else 170); when it succeeds the pitch
\* lags are in 18..141, each amp_index is temp mod 24, each ad_cb_gain is
\* temp / 24 and below its limit, and dirac_train is 1 only where the limit
\* is 85.
C15_UnpackActive ==
    ev.op = "unpack_bitstream" =>
        /\ ev.res.cur_frame_type = ACTIVE_FRAME
        /\ (ev.res.ret < 0 <=>
               \/ ev.arg.lag[1] > 123
               \/ ev.arg.lag[2] > 123
               \/ \E i \in 0..(SUBFRAMES - 1) :
                      C15_Temp(ev, i) \div 24 >= C15_Limit(ev, i))
        /\ (ev.res.ret >= 0 =>
               /\ ev.res.ret = 0
               /\ \A k \in 1..2 : ev.res.pitch_lag[k] \in 18..141
               /\ \A i \in 0..(SUBFRAMES - 1) :
                      /\ ev.res.subframe[i].amp_index = C15_Temp(ev, i) % 24
                      /\ ev.res.subframe[i].amp_index \in 0..23
                      /\ ev.res.subframe[i].ad_cb_gain = C15_Temp(ev, i) \div 24
                      /\ ev.res.subframe[i].ad_cb_gain < C15_Limit(ev, i)
                      /\ ev.res.subframe[i].dirac_train \in {0, 1}
                      /\ (ev.res.subframe[i].dirac_train = 1 => C15_Limit(ev, i) = 85))

\* C15 witness: a rate 6300 packet unpacked with one half frame on the
\* 85-entry table, with the pulse train flag set, and the other on the
\* 170-entry table with a gain index of 85 or more
C15_Witness ==
    /\ ev.op = "unpack_bitstream"
    /\ ev.res.ret = 0
    /\ \E i, j \in 0..(SUBFRAMES - 1) :
           /\ ev.res.subframe[i].dirac_train = 1
           /\ C15_Limit(ev, j) = 170
           /\ ev.res.subframe[j].ad_cb_gain >= 85

\* C16: the sid_gain that estimate_sid_gain computes on an untransmitted
\* frame following an active frame is a 6-bit code, a value in 0..63.
C16_SidGainCode ==
    (/\ last.path = "noise"
     /\ p.cur_frame_type = UNTRANSMITTED_FRAME
     /\ last.entry.past_frame_type = ACTIVE_FRAME)
        => p.sid_gain \in 0..63

\* C17: for each subframe offset and each pitch lag in 18..141 every sample
\* index the forward or backward search reads, and every index offset + k +
\* ppf.index (k in 0..59) the mix reads for a lag the search can select, is
\* in 0..FRAME_LEN + PITCH_MAX - 1; the selected lag is 0 or within 3 of
\* min(pitch_lag, PITCH_MAX - 3).
C17_SearchInRange ==
    ev.op = "autocorr_max" =>
        /\ \A i \in ev.res.lags \cup {0}, k \in {0, SUBFRAME_LEN - 1} :
               ev.arg.offset + ev.arg.dir * i + k \in 0..(FRAME_LEN + PITCH_MAX - 1)
        /\ ev.res.lag = ev.arg.target
        /\ ev.res.lag \in ev.res.lags \cup {0}
        /\ \A i \in ev.res.lags :
               /\ i >= FFMIN(ev.arg.pitch_lag, PITCH_MAX - 3) - 3
               /\ i <= FFMIN(ev.arg.pitch_lag, PITCH_MAX - 3) + 3

\* C17 witness: a forward search whose limit was cut by the end of the
\* buffer selected its last lag, which reads the last sample
C17_Witness ==
    /\ ev.op = "autocorr_max"
    /\ ev.arg.dir = 1
    /\ ev.res.lag # 0
    /\ ev.res.lag < FFMIN(ev.arg.pitch_lag, PITCH_MAX - 3) + 3
    /\ ev.arg.offset + ev.res.lag + SUBFRAME_LEN - 1 = FRAME_LEN + PITCH_MAX - 1

\* C18 as stated: with both lags zero (index 0, sc_gain 0x7fff, opt_gain 0)
\* the sample passed on equals the excitation sample e, for every int16 e.
C18_NoEffect ==
    (/\ ev.op = "pitch_postfilter"
     /\ ev.res.ppf = [index |-> 0, sc_gain |-> 32767, opt_gain |-> 0])
        => ev.res.sample = ev.arg.e

\* C18 amended: with both lags zero the sample passed on is
\* (e * 0x7fff + (1 << 14)) >> 15, which is e for -16383 <= e <= 16384,
\* e - 1 above that range and e + 1 below it.
C18_NoEffectInMidRange ==
    (/\ ev.op = "pitch_postfilter"
     /\ ev.res.ppf = [index |-> 0, sc_gain |-> 32767, opt_gain |-> 0])
        => ev.res.sample = IF ev.arg.e > 16384 THEN ev.arg.e - 1
                           ELSE IF ev.arg.e < -16383 THEN ev.arg.e + 1
                           ELSE ev.arg.e

\* C18 witness: both lags were zero and the largest sample that passes
\* unchanged did
C18_Witness ==
    /\ ev.op = "pitch_postfilter"
    /\ ev.res.ppf = [index |-> 0, sc_gain |-> 32767, opt_gain |-> 0]
    /\ ev.arg.e = 16384
    /\ ev.res.sample = 16384

\* The result of residual_interp on the excitation the last call started
\* its branch with (the saved tail in its first PITCH_MAX samples)
C19_Interp ==
    residual_interp(last.head \o SubSeq(p.excitation, PITCH_MAX + 1, Len(p.excitation)),
                    last.entry.interp_index, p.interp_gain, last.entry.random_seed)

\* C19: an erased active frame that leaves erased_frames at 1 or 2 sets
\* interp_gain to (3 * interp_gain + 2) >> 2 and runs residual interpolation
\* (its output tail, seed and buffer are what the frame leaves); a good active
\* frame sets interp_gain to fixed_cb_gain[(amp_index[2] + amp_index[3]) >> 1];
\* no concealment frame raises interp_gain and no other call changes it, so
\* it is non-increasing across a run of concealment frames.
C19_InterpGain ==
    /\ (last.path = "active" /\ last.bad_frame /\ p.erased_frames \in {1, 2}) =>
           /\ p.interp_gain = Shr(3 * last.entry.interp_gain + 2, 2)
           /\ p.prev_excitation = SubSeq(C19_Interp.out, FRAME_LEN - PITCH_MAX + 1, FRAME_LEN)
           /\ p.random_seed = C19_Interp.rseed
           /\ p.excitation = C19_Interp.buf
    /\ (last.path = "active" /\ ~last.bad_frame) =>
           p.interp_gain = fixed_cb_gain(Shr(p.subframe[2].amp_index
                                             + p.subframe[3].amp_index, 1))
    /\ (last.path = "active" /\ last.bad_frame) =>
           p.interp_gain <= last.entry.interp_gain
    /\ last.path # "active" => p.interp_gain = last.entry.interp_gain

\* C19 witness: the second concealment frame of a run lowered a positive
\* interp_gain that the first had already lowered
C19_Witness ==
    /\ last.path = "active" /\ last.bad_frame /\ p.erased_frames = 2
    /\ p.interp_gain > 0
    /\ p.interp_gain < last.entry.interp_gain
    /\ p.interp_gain = Shr(3 * last.entry.interp_gain + 2, 2)

\* The half position chosen for the pulse at position q of a subframe with
\* offset off, when q is that offset plus twice a number in 0..29
C20_Chosen(q, off) ==
    IF q >= off /\ (q - off) % 2 = 0 /\ (q - off) \div 2 < SUBFRAME_LEN \div 2
    THEN (q - off) \div 2 ELSE -1

\* C20: cng_rand(state, base) returns a value in 0..base - 1 and leaves a
\* 16-bit state; the 11 pulse positions of each subframe pair are pairwise
\* distinct and in 0..119, and in each subframe they are off[subframe] plus
\* twice a number of 0..29, no number drawn twice.
C20_CngDraws ==
    ev.op = "cng_rand" =>
        /\ ev.res.value \in 0..(ev.arg.base - 1)
        /\ ev.res.state \in 0..65535
        /\ \A h \in 1..2 :
               /\ Len(ev.res.pos[h]) = 11
               /\ \A a \in 1..11 : ev.res.pos[h][a] \in 0..(2 * SUBFRAME_LEN - 1)
               /\ \A a, b \in 1..11 : a # b => ev.res.pos[h][a] # ev.res.pos[h][b]
               /\ \A a \in 1..11 :
                      C20_Chosen(ev.res.pos[h][a], ev.res.off[h][IF a <= 6 THEN 1 ELSE 2])
                          \in 0..(SUBFRAME_LEN \div 2 - 1)
               /\ \A a, b \in 1..6 : a # b =>
                      C20_Chosen(ev.res.pos[h][a], ev.res.off[h][1])
                          # C20_Chosen(ev.res.pos[h][b], ev.res.off[h][1])
               /\ \A a, b \in 7..11 : a # b =>
                      C20_Chosen(ev.res.pos[h][a], ev.res.off[h][2])
                          # C20_Chosen(ev.res.pos[h][b], ev.res.off[h][2])

\* C20 witness: cng_rand returned the largest value of its range, and a
\* draw of the first subframe took the entry that an earlier draw had moved
\* down from the end of the list (half position 29 drawn after the first draw)
C20_Witness ==
    /\ ev.op = "cng_rand"
    /\ ev.arg.base > 1
    /\ ev.res.value = ev.arg.base - 1
    /\ \E a \in 2..6 : C20_Chosen(ev.res.pos[1][a], ev.res.off[1][1]) = 29
    /\ C20_Chosen(ev.res.pos[1][1], ev.res.off[1][1]) < 29

\* C21: every write to the output frame buffer stays within its FRAME_LEN
\* samples, indices 0..239: the samples the output stage stores are FRAME_LEN
\* in number, and the mute step of the third erasure clears no more than
\* FRAME_LEN samples.
C21_WritesInFrame ==
    Emitted(last) =>
        /\ Len(out) = FRAME_LEN
        /\ last.extent <= FRAME_LEN

\* C22: at 5300 bps the four pulse offsets ((cb_pos >> 3k) & 7) * 8 +
\* grid_index + 2k that gen_fcb_excitation writes are in 0..SUBFRAME_LEN + 3,
\* so that for each subframe they stay inside the working buffer of
\* PITCH_MAX + FRAME_LEN + 4 samples; and what a subframe writes behind its
\* 60 samples does not reach the excitation of a later subframe, which is
\* the same as when built from a buffer cleared behind the subframe.
C22_PulsesContained ==
    ev.op = "gen_fcb_excitation" =>
        /\ ev.res.cells = {((Shr(ev.arg.pulse_pos, 3 * k) % 8) * 8) + ev.arg.grid_index + 2 * k :
                              k \in 0..3}
        /\ \A c \in ev.res.cells :
               /\ c \in 0..(SUBFRAME_LEN + 3)
               /\ \A i \in 0..(SUBFRAMES - 1) :
                      PITCH_MAX + SUBFRAME_LEN * i + c < PITCH_MAX + FRAME_LEN + 4
        /\ \A i \in 1..(SUBFRAMES - 1) :
               ev.res.rebuilt[i] = SubSeq(ev.res.total, SUBFRAME_LEN * i + 1, FRAME_LEN)

\* C22 witness: the last pulse was written at offset SUBFRAME_LEN + 3, the
\* fourth sample of the following subframe, in a frame whose excitation is
\* not zero
C22_Witness ==
    /\ ev.op = "gen_fcb_excitation"
    /\ SUBFRAME_LEN + 3 \in ev.res.cells
    /\ \E k \in 1..4 : ev.res.total[SUBFRAME_LEN + k] # 0
====
